---- MODULE Spec2Model ----
(***************************************************************************)
(* llm-consensus: the query runner (internal/runner), the provider         *)
(* abstraction and registry (internal/provider) and the judge              *)
(* (internal/consensus).                                                   *)
(*                                                                         *)
(* Go strings are TLA+ strings; fmt.Sprintf and the text/template          *)
(* expansion are string concatenations.  A nil error and a nil pointer     *)
(* are the value Nil.  The loop variable of Run's range loop is            *)
(* per-iteration (Go >= 1.22), so every task owns its model name.          *)
(***************************************************************************)
EXTENDS Integers, Sequences, FiniteSets, TLC

(* ------------------------------ bounds --------------------------------- *)

\* longest model list handed to Run
MaxModels == 2

\* most text deltas one streamed reply carries
MaxChunks == 1

\* longest response sequence handed to Synthesize
MaxResponses == 2

(* --------------------------- value universe ---------------------------- *)

\* a nil error (errors are their Error() strings)
Nil == "<nil>"

\* a nil pointer to a struct
NilPtr == [isNil |-> TRUE]

\* model identifiers a caller may request
ModelNames == {"a", "b", "u"}

\* the prompt handed to Run
Prompts == {"2+2?"}

\* context.Canceled.Error() and context.DeadlineExceeded.Error()
Canceled == "context canceled"

DeadlineExceeded == "context deadline exceeded"

\* an error a provider's backend reports on its own
Boom == "boom"

\* text of one streamed delta
ChunkText == "y"

\* content the function-adapter stub answers with
StubContent == "X"

RECURSIVE SeqsUpTo(_, _)
SeqsUpTo(S, n) ==
    IF n = 0 THEN {<<>>}
    ELSE LET shorter == SeqsUpTo(S, n - 1)
         IN  shorter \cup {Append(s, x) : s \in {t \in shorter : Len(t) = n - 1}, x \in S}

ModelLists == SeqsUpTo(ModelNames, MaxModels)

(* ------------------------------ provider ------------------------------- *)

\* provider.Response (Latency is not modelled here)
Response(model, content, providerName) ==
    [Model |-> model, Content |-> content, Provider |-> providerName]

\* the zero Response{} returned beside an error
ZeroResponse == Response("", "", "")

\* NewRegistry(): no model registered (a provider is named by its kind)
NewRegistry == [m \in {} |-> Nil]

\* a Register that keeps the provider a model already has
Register_KeepFirst(reg, model, p) ==
    [m \in (DOMAIN reg) \cup {model} |-> IF m \in DOMAIN reg THEN reg[m] ELSE p]

\* Registry.Register
Register(reg, model, p) ==
    [m \in (DOMAIN reg) \cup {model} |-> IF m = model THEN p ELSE reg[m]]

\* a lookup that falls back to some provider for an unknown model
RegistryGet_Fallback(reg, model) ==
    IF model \in DOMAIN reg
    THEN [p |-> reg[model], err |-> Nil]
    ELSE [p |-> "func", err |-> Nil]

\* Registry.Get: (provider, error)
RegistryGet(reg, model) ==
    IF model \in DOMAIN reg
    THEN [p |-> reg[model], err |-> Nil]
    ELSE [p |-> Nil, err |-> "unknown model: " \o model]

AnthropicURL == "https://api.anthropic.com/v1" \o "/messages"

\* *url.Error.Error() of a failed httpClient.Do
UrlError(cause) == "Post \"" \o AnthropicURL \o "\": " \o cause

\* fmt.Errorf("sending request: %w", err)
SendingRequestError(cause) == "sending request: " \o UrlError(cause)

\* fmt.Errorf("reading stream: %w", err)
ReadingStreamError(cause) == "reading stream: " \o cause

\* fmt.Errorf("API error (status %d): %s", ...)
ApiError == "API error (status 500): " \o Boom

\* What the function wrapped by a ProviderFunc answers: like the stubs of
\* runner_test.go it returns ctx.Err() once its context is done, and otherwise
\* a response for the requested model or an error of its own.
StubOutcomes(ctxErr, req) ==
    IF ctxErr # Nil
    THEN {[resp |-> ZeroResponse, err |-> ctxErr]}
    ELSE {[resp |-> Response(req.Model, StubContent, "test"), err |-> Nil],
          [resp |-> ZeroResponse, err |-> Boom]}

\* hands the content to the callback whatever f returned
ProviderFuncQueryStream_CallbackOnError(fres) ==
    [resp |-> fres.resp, err |-> fres.err, chunks |-> <<fres.resp.Content>>]

\* ProviderFunc.QueryStream on the result of f(ctx, req), streaming callback
\* set: the chunks handed to the callback, and what is returned
ProviderFuncQueryStream(fres) ==
    IF fres.err # Nil
    THEN [resp |-> fres.resp, err |-> fres.err, chunks |-> <<>>]
    ELSE [resp |-> fres.resp, err |-> Nil, chunks |-> <<fres.resp.Content>>]

\* Anthropic.QueryStream up to the status check: httpClient.Do fails once the
\* request's context is done, and otherwise answers with a status; a status
\* other than 200 is an API error.
DoOutcomes(ctxErr) ==
    IF ctxErr # Nil
    THEN {[ok |-> FALSE, err |-> SendingRequestError(ctxErr)]}
    ELSE {[ok |-> TRUE, err |-> Nil],
          [ok |-> FALSE, err |-> ApiError]}

\* One scanner.Scan() of Anthropic.QueryStream that reaches the network: the
\* read fails once the context is done; otherwise it yields a text delta, the
\* end of the stream, or a read error.
ScanOutcomes(ctxErr, sofar) ==
    IF ctxErr # Nil
    THEN {[kind |-> "err", chunk |-> "", err |-> ReadingStreamError(ctxErr)]}
    ELSE {[kind |-> "eof", chunk |-> "", err |-> Nil],
          [kind |-> "err", chunk |-> "", err |-> ReadingStreamError(Boom)]}
         \cup (IF Len(sofar) < MaxChunks * Len(ChunkText)
               THEN {[kind |-> "delta", chunk |-> ChunkText, err |-> Nil]}
               ELSE {})

\* the Response Anthropic.QueryStream returns after the scan loop
AnthropicResponse(req, fullContent) == Response(req.Model, fullContent, "anthropic")

\* a request that leaves the prompt out
Request_NoPrompt(model, p) == [Model |-> model, Prompt |-> ""]

\* provider.Request
Request(model, p) == [Model |-> model, Prompt |-> p]

(* ------------------------------- runner -------------------------------- *)

\* a warning that drops the model name
WarningText_NoModel(model, err) == err

\* fmt.Sprintf("%s: %v", model, err)
WarningText(model, err) == model \o ": " \o err

RECURSIVE JoinSpace(_)
JoinSpace(ws) ==
    IF ws = <<>> THEN ""
    ELSE IF Len(ws) = 1 THEN ws[1]
    ELSE ws[1] \o " " \o JoinSpace(Tail(ws))

\* fmt.Sprintf("%v", warnings) of a []string
SprintfV(ws) == "[" \o JoinSpace(ws) \o "]"

\* errors.New("all models failed: " + ...)
AllFailedError(ws) == "all models failed: " \o SprintfV(ws)

\* a task that hands its own error to the errgroup (fail-fast)
TaskReturnValue_FailFast(err) == err

\* a task that hands a failed registry lookup to the errgroup
TaskReturnValue_LookupFails(err) ==
    IF Len(err) >= 13 /\ SubSeq(err, 1, 13) = "unknown model" THEN err ELSE Nil

\* what every task function returns to the errgroup
TaskReturnValue(err) == Nil

\* Run without the len(responses) == 0 check
RunReturn_NoEmptyCheck(gerr, resps, warns, fails) ==
    IF gerr # Nil THEN [result |-> NilPtr, err |-> gerr]
    ELSE [result |-> [Responses |-> resps, Warnings |-> warns, FailedModels |-> fails],
          err |-> Nil]

\* Run that reports total failure only when some model was recorded as failed
RunReturn_FailedOnly(gerr, resps, warns, fails) ==
    IF gerr # Nil THEN [result |-> NilPtr, err |-> gerr]
    ELSE IF Len(resps) = 0 /\ Len(fails) > 0
         THEN [result |-> NilPtr, err |-> AllFailedError(warns)]
    ELSE [result |-> [Responses |-> resps, Warnings |-> warns, FailedModels |-> fails],
          err |-> Nil]

\* the tail of Run after g.Wait(): (*Result, error)
RunReturn(gerr, resps, warns, fails) ==
    IF gerr # Nil THEN [result |-> NilPtr, err |-> gerr]
    ELSE IF Len(resps) = 0 THEN [result |-> NilPtr, err |-> AllFailedError(warns)]
    ELSE [result |-> [Responses |-> resps, Warnings |-> warns, FailedModels |-> fails],
          err |-> Nil]

(* -------------------------------- judge -------------------------------- *)

\* judgePromptTemplate up to {{.Prompt}}
TemplateHead ==
    "\nRole\nYou are an expert synthesis judge and careful editor. Your job is to combine multiple AI model responses into one best-possible answer to the user.\n\nInputs\nUser's original prompt:\n"

\* judgePromptTemplate between {{.Prompt}} and {{range .Responses}}
TemplateMid == "\n\nModel responses:\n"

\* the body of {{range .Responses}} ... {{end}} for one response
TemplateBlock(r) ==
    "\n--- Model: " \o r.Model \o " | Provider: " \o r.Provider \o " ---\n"
        \o r.Content \o "\n\n"

\* judgePromptTemplate after {{end}} (the typographic quotes around the word
\* consensus are written as plain quotes)
TemplateTail ==
    "\n\nTask\nProduce ONE final answer that directly addresses the user's original prompt by synthesizing the model responses.\n\nMethod\n1) Infer the user's intent and constraints from the original prompt (scope, tone, formatting, assumptions). Follow them.\n2) Extract the strongest points that are supported and/or repeated across responses.\n3) Resolve conflicts:\n   - Prefer statements that are more logically sound, more specific, and better justified.\n   - Prefer safer, broadly valid guidance over speculative or brittle claims.\n   - If uncertainty remains, choose the most defensible formulation and qualify it briefly.\n4) Fill gaps only when needed to make the answer complete and usable. Do not invent facts; do not add extraneous content.\n\nOutput Requirements\n- Output ONLY the final synthesized answer (no preamble, no meta-commentary, no mention of models or \"consensus\").\n- Do not quote or reference individual model responses.\n- Keep the answer coherent, non-redundant, and well-structured (use bullets/steps/headings if helpful).\n- Match formatting appropriate to the task (e.g., code blocks for code).\n"

\* a loop that emits the blocks last to first
RECURSIVE RangeResponses_Reversed(_)
RangeResponses_Reversed(rs) ==
    IF rs = <<>> THEN ""
    ELSE RangeResponses_Reversed(Tail(rs)) \o TemplateBlock(Head(rs))

\* the {{range .Responses}} loop
RECURSIVE RangeResponses(_)
RangeResponses(rs) ==
    IF rs = <<>> THEN "" ELSE TemplateBlock(Head(rs)) \o RangeResponses(Tail(rs))

\* tmpl.Execute(&buf, data); buf.String()
ExecuteTemplate(originalPrompt, rs) ==
    TemplateHead \o originalPrompt \o TemplateMid \o RangeResponses(rs) \o TemplateTail

\* fmt.Errorf("judge query failed: %w", err)
JudgeQueryError(err) == "judge query failed: " \o err

\* the end of SynthesizeStream, from what QueryStream returned
\* returns the Model of the judge's response in place of its Content
SynthesizeReturn_WrongField(resp, err) ==
    IF err # Nil
    THEN [text |-> "", err |-> JudgeQueryError(err)]
    ELSE [text |-> resp.Model, err |-> Nil]

\* drops the judge provider's error
SynthesizeReturn_SwallowError(resp, err) == [text |-> resp.Content, err |-> Nil]

SynthesizeReturn(resp, err) ==
    IF err # Nil
    THEN [text |-> "", err |-> JudgeQueryError(err)]
    ELSE [text |-> resp.Content, err |-> Nil]

\* a judge without the single-response shortcut
SynthesizeBranch_NoShortcut(rs) ==
    IF Len(rs) = 0 THEN "fail" ELSE "query"

\* SynthesizeStream before any provider call: "fail" (no responses),
\* "single" (one response, returned directly) or "query"
\* without the `len(responses) == 0` check
SynthesizeBranch_EmptyQueries(rs) ==
    IF Len(rs) = 1 THEN "single" ELSE "query"

SynthesizeBranch(rs) ==
    IF Len(rs) = 0 THEN "fail"
    ELSE IF Len(rs) = 1 THEN "single"
    ELSE "query"

\* responses a caller may hand to Synthesize
ResponseUniverse ==
    {Response("a", StubContent, "test"),
     Response("b", ChunkText, "anthropic"),
     Response("b", "", "anthropic")}

ResponseLists == SeqsUpTo(ResponseUniverse, MaxResponses)

\* provider kinds a judge may be built on
ProviderKinds == {"func", "anthropic"}

VARIABLES
    registry,      \* Registry.providers
    callbacks,     \* the fields of Runner.callbacks that are set ({}: none)
    models,        \* Run's models argument
    prompt,        \* Run's prompt argument
    rpc,           \* where Run is: "idle", "launch", "returned"
    launched,      \* tasks started by g.Go so far
    parentErr,     \* Err() of the context handed to Run by the caller
    gctxErr,       \* Err() of the errgroup's context
    gErr,          \* the errgroup's first non-nil task error
    tpc,           \* per task: position in the task function
    mctxErr,       \* per task: Err() of modelCtx
    content,       \* per task: fullContent of the provider call in progress
    tresp,         \* per task: resp returned by QueryStream
    terr,          \* per task: err of registry.Get / QueryStream
    mu,            \* holder of Run's mutex, 0 when free
    responses,
    warnings,
    failedModels,
    runResult,     \* *Result returned by Run
    runErr,        \* error returned by Run
    cbLog,         \* per task: the callbacks it has invoked, in order
    calls,         \* per task: QueryStream requests it has issued
    timerFired,    \* tasks whose per-model timer fired while their provider call ran
    inflightAtCancel, \* tasks inside a provider call when the parent was cancelled
    judge,         \* the Judge: [provider, model], NilPtr before NewJudge
    jpc,           \* where SynthesizeStream is: "idle", "stub", "do", "scan", "done"
    jresponses,    \* SynthesizeStream's responses argument
    jprompt,       \* SynthesizeStream's originalPrompt argument
    jcallback,     \* SynthesizeStream's callback argument is not nil
    jctxErr,       \* Err() of the context handed to SynthesizeStream
    jcalls,        \* the calls made to the judge provider: <<method, request>>
    jcontent,      \* fullContent of the judge provider call in progress
    jchunks,       \* the chunks handed to the callback, in order
    jresp,         \* the Response the judge provider call returned
    jperr,         \* the error the judge provider call returned
    jresult,       \* the string SynthesizeStream returned
    jerr           \* the error SynthesizeStream returned

rvars == <<registry, callbacks, models, prompt, rpc, launched, parentErr, gctxErr,
           gErr, tpc, mctxErr, content, tresp, terr, mu, responses, warnings,
           failedModels, runResult, runErr, cbLog, calls, timerFired,
           inflightAtCancel>>

jvars == <<judge, jpc, jresponses, jprompt, jcallback, jctxErr, jcalls, jcontent,
           jchunks, jresp, jperr, jresult, jerr>>

\* one QueryStream call on one provider
VARIABLES
    pkind,         \* the provider implementation called: "func", "anthropic", "openai"
    preq,          \* the Request of the call
    pcb,           \* the callback argument is not nil
    pctxErr,       \* Err() of the context of the call
    ppc,           \* where QueryStream is: "idle", "stub", "do", "scan", "done"
    pread,         \* lines of the response body scanned so far
    pfull,         \* fullContent
    pdelivered,    \* the chunks handed to the callback, in order
    presp,         \* the Response returned
    perr           \* the error returned

pvars == <<pkind, preq, pcb, pctxErr, ppc, pread, pfull, pdelivered, presp, perr>>

VARIABLES
    runnerKind     \* the Runner constructed: "callbacks" (Run relays to optional
                   \* Callbacks and calls QueryStream) or "plain" (the runner
                   \* without callbacks, which calls Query)

\* a Registry shared by goroutines that call Register, Get and Models
VARIABLES
    providers,     \* Registry.providers
    rwWriters,     \* goroutines holding Registry.mu for writing
    rwReaders,     \* goroutines holding Registry.mu for reading
    gpc,           \* per goroutine: where it is in its Registry call
    gop,           \* per goroutine: the arguments of its call in progress [model, p]
    gsnap,         \* per goroutine: the map as its write in progress found it
    gret,          \* per goroutine: what its Get / Models in progress is returning
    history        \* the Register calls in the order of their writes

gvars == <<providers, rwWriters, rwReaders, gpc, gop, gsnap, gret, history>>

\* the command-line program: main.run
VARIABLES
    cpc,           \* where run() is: "start", "init", "ready", "judge", "output", "exit"
    cfg,           \* the config fields read before the output step: [models, judge, prompt]
    cflags,        \* the config fields the output step reads, and whether stderr is a terminal
    cliErr,        \* the error run() returned
    out,           \* the output.Result built by run()
    stdout,        \* the records written to os.Stdout
    files,         \* the paths of the files written: the JSON of out at the output
                   \* path, the prompt in prompt.txt, the consensus in consensus.md
    printed        \* the result was pretty-printed to the terminal (os.Stderr)

cvars == <<cpc, cfg, cflags, cliErr, out, stdout, files, printed>>

\* the encoding of one output.Result as JSON
VARIABLES
    oenc           \* the fields named below

\* "idle", "built" (out is assigned), "encoded" (enc.Encode(out) returned)
opc == oenc.opc
\* the output.Result handed to the encoder, Latency included
orec == oenc.orec
\* the JSON object written: a function from the names present
ojson == oenc.ojson

ovars == <<oenc>>

\* one server reply answered to Query and, streamed, to QueryStream
VARIABLES
    qcall          \* the fields named below

\* "idle", "served", "queried" (Query returned), "both"
qpc == qcall.qpc
\* the provider implementation: "anthropic", "openai"
qkind == qcall.qkind
\* the Request of both calls
qreq == qcall.qreq
\* what the server answers: [ok, texts]
qreply == qcall.qreply
\* what Query returned: [resp, err]
qres == qcall.qres
\* what QueryStream returned: [resp, err]
sres == qcall.sres

qvars == <<qcall>>

\* the ui.Progress of run(), its refresh goroutine and the main goroutine
\* around Run
VARIABLES
    ui             \* the fields named below

\* main goroutine: "none", "new", "initRender", "initFrame", "started",
\* "ready", "clear" (Stop is in clearLines), "stopped" (Stop returned)
upc == ui.upc
\* Progress.order: the names NewProgress was given
porder == ui.porder
\* Progress.models: name -> [Status, CharCount, Error]
pmodels == ui.pmodels
\* Progress.quiet
quiet == ui.quiet
\* Progress.rendered
rendered == ui.rendered
\* Progress.mu: Unlocked or the goroutine that holds it
pmu == ui.pmu
\* refresh goroutine: "none", "select", "rlock", "frame", "exit"
fpc == ui.fpc
\* the ticker was created and not stopped
tickerOn == ui.tickerOn
\* a tick waits in ticker.C (a channel of capacity one)
tickPending == ui.tickPending
\* close(p.done) has run
doneClosed == ui.doneClosed
\* per task, the chunk its stream callback is being called with
pchunk == ui.pchunk

uvars == <<ui>>

\* the variables of the other specifications
xvars == <<pvars, runnerKind, gvars, cvars, ovars, qvars, uvars>>

\* what a QueryStream step leaves alone
pOther == <<uvars, rvars, jvars, runnerKind, gvars, cvars, ovars, qvars>>

\* what the choice of the runner leaves alone
kOther == <<uvars, rvars, jvars, pvars, gvars, cvars, ovars, qvars>>

\* what a Registry step leaves alone
gOther == <<uvars, rvars, jvars, pvars, runnerKind, cvars, ovars, qvars>>

\* what a step of run() outside the runner and the judge leaves alone
cOther == <<pvars, runnerKind, gvars, ovars, qvars, uvars>>

\* what a step of the encoder leaves alone
oOther == <<uvars, rvars, jvars, pvars, runnerKind, gvars, cvars, qvars>>

\* what a step of the two calls on one reply leaves alone
qOther == <<rvars, jvars, pvars, runnerKind, gvars, cvars, ovars, uvars>>

\* what a step of the Progress or of the main goroutine around Run leaves alone
uOther == <<jvars, pvars, runnerKind, gvars, cvars, ovars, qvars>>

vars == <<rvars, jvars, xvars>>

Tasks == 1..Len(models)

InCall(i) == tpc[i] \in {"do", "scan", "stub"}

\* New(registry, timeout) on the registry the runs are made against: "a" is
\* served by a ProviderFunc stub, "b" by the Anthropic provider, "u" is not
\* registered.  Run has not been called.
RunnerInit ==
    /\ registry = Register(Register(NewRegistry, "a", "func"), "b", "anthropic")
    /\ callbacks = {}
    /\ models = <<>>
    /\ prompt = ""
    /\ rpc = "idle"
    /\ launched = 0
    /\ parentErr = Nil
    /\ gctxErr = Nil
    /\ gErr = Nil
    /\ tpc = <<>>
    /\ mctxErr = <<>>
    /\ content = <<>>
    /\ tresp = <<>>
    /\ terr = <<>>
    /\ mu = 0
    /\ responses = <<>>
    /\ warnings = <<>>
    /\ failedModels = <<>>
    /\ runResult = NilPtr
    /\ runErr = Nil
    /\ cbLog = <<>>
    /\ calls = <<>>
    /\ timerFired = {}
    /\ inflightAtCancel = {}

JudgeInit ==
    /\ judge = NilPtr
    /\ jpc = "idle"
    /\ jresponses = <<>>
    /\ jprompt = ""
    /\ jcallback = FALSE
    /\ jctxErr = Nil
    /\ jcalls = <<>>
    /\ jresp = ZeroResponse
    /\ jperr = Nil
    /\ jcontent = ""
    /\ jchunks = <<>>
    /\ jresult = ""
    /\ jerr = Nil

\* no QueryStream call has been made
ProviderInit ==
    /\ pkind = ""
    /\ preq = Request("", "")
    /\ pcb = FALSE
    /\ pctxErr = Nil
    /\ ppc = "idle"
    /\ pread = 0
    /\ pfull = ""
    /\ pdelivered = <<>>
    /\ presp = ZeroResponse
    /\ perr = Nil

\* goroutines that share the Registry
MaxProcs == 2

\* Register calls made on the shared Registry
MaxRegisters == 2

Procs == 1..MaxProcs

\* the arguments of a goroutine that is in no call
NoCall == [model |-> "", p |-> Nil]

\* what a call that has not returned a value holds
NoReturn == [p |-> Nil, err |-> Nil, keys |-> {}]

\* NewRegistry(), no call in progress
RegistryInit ==
    /\ providers = NewRegistry
    /\ rwWriters = {}
    /\ rwReaders = {}
    /\ gpc = [pr \in Procs |-> "idle"]
    /\ gop = [pr \in Procs |-> NoCall]
    /\ gsnap = [pr \in Procs |-> NewRegistry]
    /\ gret = [pr \in Procs |-> NoReturn]
    /\ history = <<>>

\* the flags left at their defaults
DefaultFlags == [output |-> "", json |-> FALSE, noSave |-> FALSE, quiet |-> FALSE,
                 tty |-> FALSE]

\* no reply has been served
QueryInit ==
    qcall = [qpc |-> "idle",
             qkind |-> "",
             qreq |-> Request("", ""),
             qreply |-> [ok |-> FALSE, texts |-> <<>>],
             qres |-> [resp |-> ZeroResponse, err |-> Nil],
             sres |-> [resp |-> ZeroResponse, err |-> Nil]]

\* time.Millisecond, in the nanoseconds a time.Duration counts
Millisecond == 1000000

\* provider.Response with its Latency (a time.Duration: an int64 of nanoseconds)
TimedResponse(r, latency) ==
    [Model |-> r.Model, Content |-> r.Content, Provider |-> r.Provider,
     Latency |-> latency]

\* the zero output.Result
ZeroResult ==
    [Prompt |-> "", Responses |-> <<>>, Consensus |-> "", Judge |-> "",
     Warnings |-> <<>>, FailedModels |-> <<>>]

\* no output.Result has been built
OutputInit ==
    oenc = [opc |-> "idle", orec |-> ZeroResult, ojson |-> [n \in {} |-> ""]]

\* main() has not called run()
CliInit ==
    /\ cpc = "start"
    /\ cfg = [models |-> <<>>, judge |-> "", prompt |-> ""]
    /\ cflags = DefaultFlags
    /\ cliErr = Nil
    /\ out = NilPtr
    /\ stdout = <<>>
    /\ files = {}
    /\ printed = FALSE

\* Progress.mu is free
Unlocked == <<>>

\* before ui.NewProgress
ProgressInit ==
    ui = [upc |-> "none", porder |-> <<>>, pmodels |-> <<>>, quiet |-> FALSE,
          rendered |-> FALSE, pmu |-> Unlocked, fpc |-> "none", tickerOn |-> FALSE,
          tickPending |-> FALSE, doneClosed |-> FALSE, pchunk |-> <<>>]

Init ==
    /\ RunnerInit
    /\ JudgeInit
    /\ ProviderInit
    /\ runnerKind = "callbacks"
    /\ RegistryInit
    /\ CliInit
    /\ OutputInit
    /\ QueryInit
    /\ ProgressInit

(* --------------------------- runner actions ---------------------------- *)

AllCallbacks == {"OnModelStart", "OnModelStream", "OnModelComplete", "OnModelError"}

\* the Callbacks values WithCallbacks is given: every field nil, or every field set
CallbackChoices == {{}, AllCallbacks}

\* `if r.callbacks != nil && r.callbacks.X != nil { r.callbacks.X(...) }`
Invoke(log, name, model, arg) ==
    IF name \in callbacks THEN Append(log, <<name, model, arg>>) ELSE log

RECURSIVE InvokeAll(_, _, _, _)
InvokeAll(log, name, model, args) ==
    IF args = <<>> THEN log
    ELSE InvokeAll(Invoke(log, name, model, Head(args)), name, model, Tail(args))

\* modelCtx exists and its cancel has not run
Live(i) == tpc[i] \notin {"new", "start", "done"}

\* context cancellation reaching a context whose Err() is e
Cancelled(e, reason) == IF e = Nil THEN reason ELSE e

\* Runner.WithCallbacks
WithCallbacks(cb) ==
    /\ rpc = "idle"
    /\ callbacks = {}
    /\ cb # {}
    /\ callbacks' = cb
    /\ UNCHANGED <<registry, models, prompt, rpc, launched, parentErr, gctxErr,
                   gErr, tpc, mctxErr, content, tresp, terr, mu, responses,
                   warnings, failedModels, runResult, runErr, cbLog, calls,
                   timerFired, inflightAtCancel>>
    /\ UNCHANGED <<jvars, xvars>>

\* Runner.Run is entered: the accumulators are empty, the errgroup's context
\* is derived from the caller's
RunCall(ms, p) ==
    /\ rpc = "idle"
    /\ models' = ms
    /\ prompt' = p
    /\ rpc' = "launch"
    /\ launched' = 0
    /\ gctxErr' = parentErr
    /\ tpc' = [i \in 1..Len(ms) |-> "new"]
    /\ mctxErr' = [i \in 1..Len(ms) |-> Nil]
    /\ content' = [i \in 1..Len(ms) |-> ""]
    /\ tresp' = [i \in 1..Len(ms) |-> ZeroResponse]
    /\ terr' = [i \in 1..Len(ms) |-> Nil]
    /\ cbLog' = [i \in 1..Len(ms) |-> <<>>]
    /\ calls' = [i \in 1..Len(ms) |-> <<>>]
    /\ UNCHANGED <<registry, callbacks, parentErr, gErr, mu, responses, warnings,
                   failedModels, runResult, runErr, timerFired,
                   inflightAtCancel>>
    /\ UNCHANGED <<jvars, xvars>>

\* one iteration of `for _, model := range models { g.Go(...) }`
Launch ==
    /\ rpc = "launch"
    /\ launched < Len(models)
    /\ launched' = launched + 1
    /\ tpc' = [tpc EXCEPT ![launched + 1] = "start"]
    /\ UNCHANGED <<registry, callbacks, models, prompt, rpc, parentErr, gctxErr,
                   gErr, mctxErr, content, tresp, terr, mu, responses, warnings,
                   failedModels, runResult, runErr, cbLog, calls, timerFired, inflightAtCancel>>
    /\ UNCHANGED <<jvars, xvars>>

\* a task whose failed lookup registers a stand-in provider for its model
TaskStart_Registers(i) ==
    /\ tpc[i] = "start"
    /\ LET get == RegistryGet(registry, models[i])
       IN  /\ mctxErr' = [mctxErr EXCEPT ![i] = gctxErr]
           /\ cbLog' = [cbLog EXCEPT ![i] = Invoke(@, "OnModelStart", models[i], "")]
           /\ IF get.err # Nil
              THEN /\ terr' = [terr EXCEPT ![i] = get.err]
                   /\ tpc' = [tpc EXCEPT ![i] = "missLock"]
                   /\ registry' = Register(registry, models[i], "func")
                   /\ UNCHANGED calls
              ELSE /\ tpc' = [tpc EXCEPT ![i] = IF get.p = "func" THEN "stub" ELSE "do"]
                   /\ calls' = [calls EXCEPT ![i] = Append(@, Request(models[i], prompt))]
                   /\ UNCHANGED <<terr, registry>>
    /\ UNCHANGED <<callbacks, models, prompt, rpc, launched, parentErr,
                   gctxErr, gErr, content, tresp, mu, responses, warnings,
                   failedModels, runResult, runErr, timerFired,
                   inflightAtCancel>>
    /\ UNCHANGED <<jvars, xvars>>

\* the task up to the provider call: context.WithTimeout, OnModelStart,
\* registry.Get, and on a hit the QueryStream request is issued
TaskStart(i) ==
    /\ tpc[i] = "start"
    /\ LET get == RegistryGet(registry, models[i])
       IN  /\ mctxErr' = [mctxErr EXCEPT ![i] = gctxErr]
           /\ cbLog' = [cbLog EXCEPT ![i] = Invoke(@, "OnModelStart", models[i], "")]
           /\ IF get.err # Nil
              THEN /\ terr' = [terr EXCEPT ![i] = get.err]
                   /\ tpc' = [tpc EXCEPT ![i] = "missLock"]
                   /\ UNCHANGED calls
              ELSE /\ tpc' = [tpc EXCEPT ![i] = IF get.p = "func" THEN "stub" ELSE "do"]
                   /\ calls' = [calls EXCEPT ![i] = Append(@, Request(models[i], prompt))]
                   /\ UNCHANGED terr
    /\ UNCHANGED <<registry, callbacks, models, prompt, rpc, launched, parentErr,
                   gctxErr, gErr, content, tresp, mu, responses, warnings,
                   failedModels, runResult, runErr, timerFired,
                   inflightAtCancel>>
    /\ UNCHANGED <<jvars, xvars>>

\* registry miss: mu.Lock()
MissLock(i) ==
    /\ tpc[i] = "missLock"
    /\ mu = 0
    /\ mu' = i
    /\ tpc' = [tpc EXCEPT ![i] = "missCS"]
    /\ UNCHANGED <<registry, callbacks, models, prompt, rpc, launched, parentErr,
                   gctxErr, gErr, mctxErr, content, tresp, terr, responses,
                   warnings, failedModels, runResult, runErr, cbLog, calls,
                   timerFired, inflightAtCancel>>
    /\ UNCHANGED <<jvars, xvars>>

\* registry miss: the two appends without the mu.Unlock()
MissAppend_KeepLock(i) ==
    /\ tpc[i] = "missCS"
    /\ mu = i
    /\ warnings' = Append(warnings, WarningText(models[i], terr[i]))
    /\ failedModels' = Append(failedModels, models[i])
    /\ tpc' = [tpc EXCEPT ![i] = "missCb"]
    /\ UNCHANGED <<registry, callbacks, models, prompt, rpc, launched, parentErr,
                   gctxErr, gErr, mctxErr, content, tresp, terr, mu, responses,
                   runResult, runErr, cbLog, calls, timerFired,
                   inflightAtCancel>>
    /\ UNCHANGED <<jvars, xvars>>

\* registry miss: the warning is appended and the model name is not
MissAppend_WarningOnly(i) ==
    /\ tpc[i] = "missCS"
    /\ mu = i
    /\ warnings' = Append(warnings, WarningText(models[i], terr[i]))
    /\ mu' = 0
    /\ tpc' = [tpc EXCEPT ![i] = "missCb"]
    /\ UNCHANGED <<registry, callbacks, models, prompt, rpc, launched, parentErr,
                   gctxErr, gErr, mctxErr, content, tresp, terr, responses,
                   failedModels, runResult, runErr, cbLog, calls, timerFired,
                   inflightAtCancel>>
    /\ UNCHANGED <<jvars, xvars>>

\* registry miss: the two appends, mu.Unlock()
MissAppend(i) ==
    /\ tpc[i] = "missCS"
    /\ mu = i
    /\ warnings' = Append(warnings, WarningText(models[i], terr[i]))
    /\ failedModels' = Append(failedModels, models[i])
    /\ mu' = 0
    /\ tpc' = [tpc EXCEPT ![i] = "missCb"]
    /\ UNCHANGED <<registry, callbacks, models, prompt, rpc, launched, parentErr,
                   gctxErr, gErr, mctxErr, content, tresp, terr, responses,
                   runResult, runErr, cbLog, calls, timerFired,
                   inflightAtCancel>>
    /\ UNCHANGED <<jvars, xvars>>

\* The task function returns ret to the errgroup (its deferred cancel() runs):
\* the first non-nil return is kept and cancels the group's context.
\* Gives the new <<gErr, gctxErr, mctxErr>>.
GroupDone(i, ret) ==
    LET first == ret # Nil /\ gErr = Nil
    IN  [gErr |-> IF first THEN ret ELSE gErr,
         gctxErr |-> IF first THEN Cancelled(gctxErr, Canceled) ELSE gctxErr,
         mctxErr |-> [j \in DOMAIN mctxErr |->
                        IF j = i \/ (first /\ Live(j))
                        THEN Cancelled(mctxErr[j], Canceled)
                        ELSE mctxErr[j]]]

\* registry miss that returns without telling the observer
MissErrorCb_Silent(i) ==
    /\ tpc[i] = "missCb"
    /\ tpc' = [tpc EXCEPT ![i] = "done"]
    /\ LET g == GroupDone(i, TaskReturnValue(terr[i]))
       IN  /\ gErr' = g.gErr
           /\ gctxErr' = g.gctxErr
           /\ mctxErr' = g.mctxErr
    /\ UNCHANGED <<registry, callbacks, models, prompt, rpc, launched, parentErr,
                   content, tresp, terr, mu, responses, warnings, failedModels,
                   runResult, runErr, cbLog, calls, timerFired,
                   inflightAtCancel>>
    /\ UNCHANGED <<jvars, xvars>>

\* registry miss: OnModelError, return nil
MissErrorCb(i) ==
    /\ tpc[i] = "missCb"
    /\ cbLog' = [cbLog EXCEPT ![i] = Invoke(@, "OnModelError", models[i], terr[i])]
    /\ tpc' = [tpc EXCEPT ![i] = "done"]
    /\ LET g == GroupDone(i, TaskReturnValue(terr[i]))
       IN  /\ gErr' = g.gErr
           /\ gctxErr' = g.gctxErr
           /\ mctxErr' = g.mctxErr
    /\ UNCHANGED <<registry, callbacks, models, prompt, rpc, launched, parentErr,
                   content, tresp, terr, mu, responses, warnings, failedModels,
                   runResult, runErr, calls, timerFired,
                   inflightAtCancel>>
    /\ UNCHANGED <<jvars, xvars>>

\* p.QueryStream of a ProviderFunc: f answers, the content is relayed to the
\* stream callback once, QueryStream returns
StubReturn(i) ==
    /\ tpc[i] = "stub"
    /\ \E fres \in StubOutcomes(mctxErr[i], calls[i][1]) :
         LET r == ProviderFuncQueryStream(fres)
         IN  /\ tresp' = [tresp EXCEPT ![i] = r.resp]
             /\ terr' = [terr EXCEPT ![i] = r.err]
             /\ cbLog' = [cbLog EXCEPT ![i] =
                            InvokeAll(@, "OnModelStream", models[i], r.chunks)]
    /\ tpc' = [tpc EXCEPT ![i] = "lock"]
    /\ UNCHANGED <<registry, callbacks, models, prompt, rpc, launched, parentErr,
                   gctxErr, gErr, mctxErr, content, mu, responses, warnings,
                   failedModels, runResult, runErr, calls, timerFired, inflightAtCancel>>
    /\ UNCHANGED <<jvars, xvars>>

\* Anthropic.QueryStream: httpClient.Do and the status check
HttpDo(i) ==
    /\ tpc[i] = "do"
    /\ \E o \in DoOutcomes(mctxErr[i]) :
         IF o.ok
         THEN /\ tpc' = [tpc EXCEPT ![i] = "scan"]
              /\ UNCHANGED terr
         ELSE /\ tpc' = [tpc EXCEPT ![i] = "lock"]
              /\ terr' = [terr EXCEPT ![i] = o.err]
    /\ UNCHANGED <<registry, callbacks, models, prompt, rpc, launched, parentErr,
                   gctxErr, gErr, mctxErr, content, tresp, mu, responses,
                   warnings, failedModels, runResult, runErr, cbLog, calls,
                   timerFired, inflightAtCancel>>
    /\ UNCHANGED <<jvars, xvars>>

\* Anthropic.QueryStream: one pass of the scan loop, or its end and the return
ScanNext(i) ==
    /\ tpc[i] = "scan"
    /\ \E o \in ScanOutcomes(mctxErr[i], content[i]) :
         CASE o.kind = "delta" ->
                /\ content' = [content EXCEPT ![i] = @ \o o.chunk]
                /\ cbLog' = [cbLog EXCEPT ![i] =
                               Invoke(@, "OnModelStream", models[i], o.chunk)]
                /\ UNCHANGED <<tpc, tresp, terr>>
           [] o.kind = "eof" ->
                /\ tresp' = [tresp EXCEPT ![i] =
                               AnthropicResponse(calls[i][1], content[i])]
                /\ tpc' = [tpc EXCEPT ![i] = "lock"]
                /\ UNCHANGED <<content, cbLog, terr>>
           [] o.kind = "err" ->
                /\ terr' = [terr EXCEPT ![i] = o.err]
                /\ tpc' = [tpc EXCEPT ![i] = "lock"]
                /\ UNCHANGED <<content, cbLog, tresp>>
    /\ UNCHANGED <<registry, callbacks, models, prompt, rpc, launched, parentErr,
                   gctxErr, gErr, mctxErr, mu, responses, warnings, failedModels,
                   runResult, runErr, calls, timerFired,
                   inflightAtCancel>>
    /\ UNCHANGED <<jvars, xvars>>

\* after QueryStream: mu.Lock()
TaskLock(i) ==
    /\ tpc[i] = "lock"
    /\ mu = 0
    /\ mu' = i
    /\ tpc' = [tpc EXCEPT ![i] = "cs"]
    /\ UNCHANGED <<registry, callbacks, models, prompt, rpc, launched, parentErr,
                   gctxErr, gErr, mctxErr, content, tresp, terr, responses,
                   warnings, failedModels, runResult, runErr, cbLog, calls,
                   timerFired, inflightAtCancel>>
    /\ UNCHANGED <<jvars, xvars>>

\* after QueryStream, under the mutex: record the failure or the response,
\* fire the terminal callback, return nil (deferred mu.Unlock and cancel)
TaskRecord_OnlyObserved(i) ==
    /\ tpc[i] = "cs"
    /\ mu = i
    /\ IF terr[i] # Nil
       THEN /\ warnings' = Append(warnings, WarningText(models[i], terr[i]))
            /\ failedModels' = Append(failedModels, models[i])
            /\ cbLog' = [cbLog EXCEPT ![i] =
                           Invoke(@, "OnModelError", models[i], terr[i])]
            /\ UNCHANGED responses
       ELSE /\ responses' = IF "OnModelComplete" \in callbacks
                            THEN Append(responses, tresp[i]) ELSE responses
            /\ cbLog' = [cbLog EXCEPT ![i] = Invoke(@, "OnModelComplete", models[i], "")]
            /\ UNCHANGED <<warnings, failedModels>>
    /\ mu' = 0
    /\ tpc' = [tpc EXCEPT ![i] = "done"]
    /\ LET g == GroupDone(i, TaskReturnValue(terr[i]))
       IN  /\ gErr' = g.gErr
           /\ gctxErr' = g.gctxErr
           /\ mctxErr' = g.mctxErr
    /\ UNCHANGED <<registry, callbacks, models, prompt, rpc, launched, parentErr,
                   content, tresp, terr, runResult, runErr, calls, timerFired, inflightAtCancel>>
    /\ UNCHANGED <<jvars, xvars>>

\* a task that puts its response in front of those already collected
TaskRecord_Prepend(i) ==
    /\ tpc[i] = "cs"
    /\ mu = i
    /\ IF terr[i] # Nil
       THEN /\ warnings' = Append(warnings, WarningText(models[i], terr[i]))
            /\ failedModels' = Append(failedModels, models[i])
            /\ cbLog' = [cbLog EXCEPT ![i] =
                           Invoke(@, "OnModelError", models[i], terr[i])]
            /\ UNCHANGED responses
       ELSE /\ responses' = <<tresp[i]>> \o responses
            /\ cbLog' = [cbLog EXCEPT ![i] = Invoke(@, "OnModelComplete", models[i], "")]
            /\ UNCHANGED <<warnings, failedModels>>
    /\ mu' = 0
    /\ tpc' = [tpc EXCEPT ![i] = "done"]
    /\ LET g == GroupDone(i, TaskReturnValue(terr[i]))
       IN  /\ gErr' = g.gErr
           /\ gctxErr' = g.gctxErr
           /\ mctxErr' = g.mctxErr
    /\ UNCHANGED <<registry, callbacks, models, prompt, rpc, launched, parentErr,
                   content, tresp, terr, runResult, runErr, calls, timerFired, inflightAtCancel>>
    /\ UNCHANGED <<jvars, xvars>>

TaskRecord(i) ==
    /\ tpc[i] = "cs"
    /\ mu = i
    /\ IF terr[i] # Nil
       THEN /\ warnings' = Append(warnings, WarningText(models[i], terr[i]))
            /\ failedModels' = Append(failedModels, models[i])
            /\ cbLog' = [cbLog EXCEPT ![i] =
                           Invoke(@, "OnModelError", models[i], terr[i])]
            /\ UNCHANGED responses
       ELSE /\ responses' = Append(responses, tresp[i])
            /\ cbLog' = [cbLog EXCEPT ![i] = Invoke(@, "OnModelComplete", models[i], "")]
            /\ UNCHANGED <<warnings, failedModels>>
    /\ mu' = 0
    /\ tpc' = [tpc EXCEPT ![i] = "done"]
    /\ LET g == GroupDone(i, TaskReturnValue(terr[i]))
       IN  /\ gErr' = g.gErr
           /\ gctxErr' = g.gctxErr
           /\ mctxErr' = g.mctxErr
    /\ UNCHANGED <<registry, callbacks, models, prompt, rpc, launched, parentErr,
                   content, tresp, terr, runResult, runErr, calls, timerFired, inflightAtCancel>>
    /\ UNCHANGED <<jvars, xvars>>

\* one deadline shared by all tasks: an expiry ends every live modelCtx
TimeoutContexts_Shared(i) ==
    [j \in DOMAIN mctxErr |->
       IF Live(j) THEN Cancelled(mctxErr[j], DeadlineExceeded) ELSE mctxErr[j]]

\* a timer whose expiry leaves modelCtx as it is
TimeoutContexts_Inert(i) == mctxErr

\* The timer of task i's context.WithTimeout(ctx, r.timeout) fires: it ends
\* modelCtx of task i and no other context.  Only the provider call reads
\* modelCtx, so the timer is followed while that call runs.
TimeoutContexts(i) ==
    [j \in DOMAIN mctxErr |->
       IF j = i THEN Cancelled(mctxErr[j], DeadlineExceeded) ELSE mctxErr[j]]

Timeout(i) ==
    /\ InCall(i)
    /\ mctxErr[i] = Nil
    /\ mctxErr' = TimeoutContexts(i)
    /\ timerFired' = timerFired \cup {i}
    /\ UNCHANGED <<registry, callbacks, models, prompt, rpc, launched, parentErr,
                   gctxErr, gErr, tpc, content, tresp, terr, mu, responses,
                   warnings, failedModels, runResult, runErr, cbLog, calls,
                   inflightAtCancel>>
    /\ UNCHANGED <<jvars, xvars>>

\* a cancellation that does not reach the tasks' contexts
CancelContexts_NotPropagated == mctxErr

\* the caller's context is cancelled (signal, caller abort): the errgroup's
\* context and every live modelCtx derived from it are done with it
CancelContexts ==
    [j \in DOMAIN mctxErr |->
       IF Live(j) THEN Cancelled(mctxErr[j], Canceled) ELSE mctxErr[j]]

CancelParent ==
    /\ parentErr = Nil
    /\ rpc # "returned"
    /\ parentErr' = Canceled
    /\ gctxErr' = IF rpc = "idle" THEN gctxErr ELSE Cancelled(gctxErr, Canceled)
    /\ mctxErr' = CancelContexts
    /\ inflightAtCancel' = {i \in DOMAIN tpc : InCall(i)}
    /\ UNCHANGED <<registry, callbacks, models, prompt, rpc, launched, gErr, tpc,
                   content, tresp, terr, mu, responses, warnings, failedModels,
                   runResult, runErr, cbLog, calls, timerFired>>
    /\ UNCHANGED <<jvars, xvars>>

\* a wait that ends once every task has been launched
WaitDone_Launched == launched = Len(models)

\* a wait that ends with the first task that returns
WaitDone_First == launched = Len(models) /\ \E i \in DOMAIN tpc : tpc[i] = "done"

\* g.Wait() returns once every launched task has returned
WaitDone == launched = Len(models) /\ \A i \in DOMAIN tpc : tpc[i] = "done"

\* g.Wait() and the rest of Run
Wait ==
    /\ rpc = "launch"
    /\ WaitDone
    /\ LET r == RunReturn(gErr, responses, warnings, failedModels)
       IN  /\ runResult' = r.result
           /\ runErr' = r.err
    /\ gctxErr' = Cancelled(gctxErr, Canceled)
    /\ rpc' = "returned"
    /\ UNCHANGED <<registry, callbacks, models, prompt, launched, parentErr, gErr,
                   tpc, mctxErr, content, tresp, terr, mu, responses, warnings,
                   failedModels, cbLog, calls, timerFired,
                   inflightAtCancel>>
    /\ UNCHANGED <<jvars, xvars>>

Next ==
    \/ \E cb \in CallbackChoices : WithCallbacks(cb)
    \/ \E ms \in ModelLists, p \in Prompts : RunCall(ms, p)
    \/ Launch
    \/ \E i \in DOMAIN tpc : TaskStart(i)
    \/ \E i \in DOMAIN tpc : MissLock(i)
    \/ \E i \in DOMAIN tpc : MissAppend(i)
    \/ \E i \in DOMAIN tpc : MissErrorCb(i)
    \/ \E i \in DOMAIN tpc : StubReturn(i)
    \/ \E i \in DOMAIN tpc : HttpDo(i)
    \/ \E i \in DOMAIN tpc : ScanNext(i)
    \/ \E i \in DOMAIN tpc : TaskLock(i)
    \/ \E i \in DOMAIN tpc : TaskRecord(i)
    \/ \E i \in DOMAIN tpc : Timeout(i)
    \/ CancelParent
    \/ Wait

Spec == Init /\ [][Next]_vars

(* ======================================================================= *)
(* Properties of Runner.Run, checked under Spec                            *)
(* ======================================================================= *)

Range(f) == {f[x] : x \in DOMAIN f}

\* how many entries of the sequence q satisfy equal x
Count(q, x) == Cardinality({k \in DOMAIN q : q[k] = x})

Returned == rpc = "returned"

\* QueryStream of task i has returned
CallReturned(i) == Len(calls[i]) > 0 /\ tpc[i] \in {"lock", "cs", "done"}

\* the provider call of task i returned without error
Succeeded(i) == CallReturned(i) /\ terr[i] = Nil

\* the provider call of task i returned an error
QueryFailed(i) == CallReturned(i) /\ terr[i] # Nil

Unregistered(i) == models[i] \notin DOMAIN registry

\* C1: when Run has returned for a non-empty model list with at least one
\* successful provider call, the error is nil and the Result has at least one
\* response and exactly len(models) - len(Responses) failed models.
C1_PartialTolerance ==
    (Returned /\ Len(models) > 0 /\ \E i \in Tasks : Succeeded(i))
        => /\ runErr = Nil
           /\ runResult # NilPtr
           /\ Len(runResult.Responses) >= 1
           /\ Len(runResult.FailedModels) = Len(models) - Len(runResult.Responses)

\* a run of two models, one succeeding and one failing, has returned
C1_Witness ==
    /\ Returned
    /\ Len(models) = 2
    /\ \E i, j \in Tasks : Succeeded(i) /\ ~Succeeded(j)

\* C2: when Run has returned and no task's provider call succeeded (provider
\* error, timeout, cancellation, registry miss), the error is non-nil and the
\* Result is nil.
C2_TotalFailure ==
    (Returned /\ \A i \in Tasks : ~Succeeded(i))
        => runErr # Nil /\ runResult = NilPtr

\* a run of two models that both failed, one on a registry miss and one in
\* its provider call, has returned
C2_Witness ==
    /\ Returned
    /\ Len(models) = 2
    /\ \E i, j \in Tasks : Unregistered(i) /\ QueryFailed(j)

\* the lookup error of Registry.Get for model m, as the runner words it
LookupWarning(m) == m \o ": unknown model: " \o m

\* tasks of unregistered model m that have recorded their failure
MissRecorded(m) == {k \in Tasks : models[k] = m /\ tpc[k] \in {"missCb", "done"}}

\* C3: a task whose model is not registered never calls a provider; once it
\* has recorded its outcome, FailedModels holds its name and Warnings holds
\* "<model>: unknown model: <model>", once per such task; and when Run has
\* returned every other task has contributed its own outcome.
C3_UnregisteredModel ==
    /\ \A i \in Tasks : Unregistered(i) =>
         /\ calls[i] = <<>>
         /\ Count(failedModels, models[i]) = Cardinality(MissRecorded(models[i]))
         /\ Count(warnings, LookupWarning(models[i])) = Cardinality(MissRecorded(models[i]))
    /\ Returned =>
         \A j \in Tasks : ~Unregistered(j) =>
           /\ Len(calls[j]) = 1
           /\ Succeeded(j) => tresp[j] \in Range(responses)
           /\ QueryFailed(j) => models[j] \in Range(failedModels)

\* a run of an unregistered model beside a model that succeeded has returned
C3_Witness ==
    /\ Returned
    /\ \E i, j \in Tasks : Unregistered(i) /\ Succeeded(j)
    /\ runResult # NilPtr

\* tasks of model m whose provider call returned error e
FailedWith(m, e) == {k \in Tasks : models[k] = m /\ QueryFailed(k) /\ terr[k] = e}

\* C4: when Run has returned, a registered model's provider call returned
\* error e and some other task succeeded: the error is nil, Warnings holds the
\* string "<model>: <e>" once per such task, FailedModels holds the model, and
\* every response is the response of a task that succeeded.  For [a, b] with a
\* failing with "boom" and b succeeding: Responses is b's response alone,
\* FailedModels is [a] and Warnings is ["a: boom"].
C4_PartialFailureRecord ==
    /\ \A i \in Tasks :
         (Returned /\ QueryFailed(i) /\ \E j \in Tasks : Succeeded(j)) =>
           /\ runErr = Nil
           /\ runResult # NilPtr
           /\ Count(runResult.Warnings, models[i] \o ": " \o terr[i])
                = Cardinality(FailedWith(models[i], terr[i]))
           /\ models[i] \in Range(runResult.FailedModels)
           /\ \A r \in Range(runResult.Responses) :
                \E k \in Tasks : Succeeded(k) /\ tresp[k] = r
    /\ (Returned /\ models = <<"a", "b">> /\ terr[1] = "boom" /\ Succeeded(2)) =>
           /\ runResult.Responses = <<tresp[2]>>
           /\ runResult.FailedModels = <<"a">>
           /\ runResult.Warnings = <<"a: boom">>

\* the run of [a, b] in which a failed with "boom" and b succeeded has returned
C4_Witness ==
    /\ Returned
    /\ models = <<"a", "b">>
    /\ terr[1] = "boom"
    /\ Succeeded(2)
    /\ tresp[2].Content = ChunkText

\* C5: Run never returns a nil error with an empty Responses: a nil error
\* comes with a Result of at least one response, and with zero successful
\* tasks (the empty model list included) the error is non-nil.
C5_NoEmptySuccess ==
    Returned =>
      /\ runErr = Nil => (runResult # NilPtr /\ Len(runResult.Responses) >= 1)
      /\ Len(models) = 0 => runErr # Nil
      /\ Len(responses) = 0 => runErr # Nil

\* Run on the empty model list has returned
C5_Witness == Returned /\ models = <<>> /\ runErr # Nil

\* C6: the per-model timeouts are independent.  A task whose timer fired
\* during its provider call is recorded in FailedModels; a context is done
\* only by its own timer or by the caller's cancellation, never by a
\* sibling's timer; and when Run has returned every task whose provider call
\* succeeded has its response in Responses.
C6_TimeoutIsolation ==
    /\ \A i \in Tasks :
         /\ (i \in timerFired /\ tpc[i] = "done") => models[i] \in Range(failedModels)
         /\ (Live(i) /\ mctxErr[i] # Nil) => (i \in timerFired \/ parentErr # Nil)
         /\ mctxErr[i] = DeadlineExceeded => i \in timerFired
    /\ Returned =>
         \A j \in Tasks : Succeeded(j) =>
           runResult # NilPtr /\ tresp[j] \in Range(runResult.Responses)

\* a run has returned in which one model timed out and a sibling succeeded,
\* with no cancellation by the caller
C6_Witness ==
    /\ Returned
    /\ parentErr = Nil
    /\ \E i, j \in Tasks : i \in timerFired /\ Succeeded(j)

\* entries of Responses produced for model m
ResponsesOf(m) == Cardinality({k \in DOMAIN responses : responses[k].Model = m})

\* C7: Run returns only after every launched task has finished, and every
\* entry of the model list has been launched: when Run has returned every task
\* is done and every requested model is recorded in Responses or in
\* FailedModels, once per entry of the list.
C7_WaitsForAll ==
    Returned =>
      /\ launched = Len(models)
      /\ \A i \in Tasks : tpc[i] = "done"
      /\ Len(responses) + Len(failedModels) = Len(models)
      /\ \A m \in Range(models) :
           ResponsesOf(m) + Count(failedModels, m) = Count(models, m)

\* a run of the same model twice has returned after both tasks finished
\* differently
C7_Witness ==
    /\ Returned
    /\ Len(models) = 2
    /\ models[1] = models[2]
    /\ Len(responses) = 1
    /\ Len(failedModels) = 1

\* s ends with t
HasSuffix(s, t) == Len(s) >= Len(t) /\ SubSeq(s, Len(s) - Len(t) + 1, Len(s)) = t

\* C8 as stated: every task in a provider call when the caller's context was
\* cancelled ends in FailedModels with the warning "<model>: <reason>", the
\* reason being the Err() of its context.
C8_Original_ReasonIsWarningText ==
    \A i \in inflightAtCancel :
      tpc[i] = "done" =>
        /\ models[i] \in Range(failedModels)
        /\ (models[i] \o ": " \o mctxErr[i]) \in Range(warnings)

\* C8, amended: cancelling the caller's context ends the errgroup's context
\* and every live modelCtx; every task in a provider call at that moment gets
\* an error from that call, and ends in FailedModels with the warning
\* "<model>: <e>", e being the provider's error, which ends with the Err() of
\* the task's context (context canceled, or context deadline exceeded when the
\* task's own timer had fired before).
C8_CancellationPropagates ==
    /\ parentErr # Nil =>
         /\ rpc # "idle" => gctxErr # Nil
         /\ \A i \in Tasks : Live(i) => mctxErr[i] # Nil
    /\ \A i \in inflightAtCancel :
         /\ mctxErr[i] = IF i \in timerFired THEN DeadlineExceeded ELSE Canceled
         /\ CallReturned(i) => (terr[i] # Nil /\ HasSuffix(terr[i], mctxErr[i]))
         /\ tpc[i] = "done" =>
              /\ models[i] \in Range(failedModels)
              /\ (models[i] \o ": " \o terr[i]) \in Range(warnings)

\* a run has returned in which the caller cancelled while a stub call and an
\* Anthropic call were both in progress
C8_Witness ==
    /\ Returned
    /\ \E i, j \in inflightAtCancel :
         registry[models[i]] = "func" /\ registry[models[j]] = "anthropic"

\* no model occurs twice in the list
NoDuplicates(ms) == \A i, j \in DOMAIN ms : ms[i] = ms[j] => i = j

TerminalCallbacks == {"OnModelComplete", "OnModelError"}

\* log is OnModelStart, then OnModelStream chunks, then at most one terminal
\* callback as its last entry
StartStreamTerminal(log) ==
    /\ log # <<>>
    /\ log[1][1] = "OnModelStart"
    /\ \A k \in 2..Len(log) :
         \/ log[k][1] = "OnModelStream"
         \/ k = Len(log) /\ log[k][1] \in TerminalCallbacks

\* C15: with all four callbacks set and a model list without duplicates, the
\* callbacks made for a model are those of its one task, and at every moment
\* they are: nothing before the task starts; then one OnModelStart, followed
\* by OnModelStream chunks only; and from the end of the task on, closed by
\* exactly one terminal callback (OnModelComplete or OnModelError) as the last
\* entry, which never appears before the task records its outcome.
C15_CallbackOrder ==
    (callbacks = AllCallbacks /\ NoDuplicates(models)) =>
      \A i \in Tasks :
        LET log == cbLog[i]
        IN  /\ \A k \in DOMAIN log : log[k][2] = models[i]
            /\ tpc[i] \in {"new", "start"} => log = <<>>
            /\ tpc[i] \notin {"new", "start"} => StartStreamTerminal(log)
            /\ tpc[i] = "done" <=>
                 (Len(log) >= 2 /\ log[Len(log)][1] \in TerminalCallbacks)
            /\ tpc[i] = "done" =>
                 (log[Len(log)][1] = "OnModelComplete" <=> Succeeded(i))

\* a run over two different models has returned, one task having streamed a
\* chunk and completed, the other having failed at the registry
C15_Witness ==
    /\ Returned
    /\ callbacks = AllCallbacks
    /\ Len(models) = 2
    /\ NoDuplicates(models)
    /\ \E i, j \in Tasks :
         /\ Len(cbLog[i]) = 3
         /\ cbLog[i][2][1] = "OnModelStream"
         /\ cbLog[i][3][1] = "OnModelComplete"
         /\ Unregistered(j)
         /\ cbLog[j] = <<<<"OnModelStart", models[j], "">>,
                         <<"OnModelError", models[j], terr[j]>>>>

(* ======================================================================= *)
(* The runner with any subset of its callbacks, and the runner without     *)
(* callbacks                                                               *)
(* ======================================================================= *)

\* New of the runner without callbacks
NewPlain ==
    /\ rpc = "idle"
    /\ callbacks = {}
    /\ runnerKind = "callbacks"
    /\ runnerKind' = "plain"
    /\ UNCHANGED kOther

\* Anthropic.Query after httpClient.Do: io.ReadAll fails (with the context's
\* error once it is done), or the body does not parse, or holds no content
\* block, or the text of its first content block is returned
QueryBodyOutcomes(ctxErr, req) ==
    IF ctxErr # Nil
    THEN {[resp |-> ZeroResponse, err |-> "reading response: " \o ctxErr]}
    ELSE {[resp |-> ZeroResponse, err |-> "reading response: " \o Boom],
          [resp |-> ZeroResponse, err |-> "parsing response: " \o Boom],
          [resp |-> ZeroResponse, err |-> "no content in response"],
          [resp |-> Response(req.Model, ChunkText, "anthropic"), err |-> Nil]}

\* the runner without callbacks: p.Query of the Anthropic provider reads the
\* body and returns
PlainQueryBody(i) ==
    /\ runnerKind = "plain"
    /\ tpc[i] = "scan"
    /\ \E o \in QueryBodyOutcomes(mctxErr[i], calls[i][1]) :
         /\ tresp' = [tresp EXCEPT ![i] = o.resp]
         /\ terr' = [terr EXCEPT ![i] = o.err]
    /\ tpc' = [tpc EXCEPT ![i] = "lock"]
    /\ UNCHANGED <<registry, callbacks, models, prompt, rpc, launched, parentErr,
                   gctxErr, gErr, mctxErr, content, mu, responses, warnings,
                   failedModels, runResult, runErr, cbLog, calls, timerFired,
                   inflightAtCancel>>
    /\ UNCHANGED <<jvars, xvars>>

\* Runs of the runner with every subset of the four callbacks and of the
\* runner without callbacks, the caller's context staying live and no timer
\* firing: the providers' outcomes are their own.
CallbacksNext ==
    \/ NewPlain
    \/ \E cb \in SUBSET AllCallbacks : runnerKind = "callbacks" /\ WithCallbacks(cb)
    \/ \E ms \in ModelLists, p \in Prompts : RunCall(ms, p)
    \/ Launch
    \/ \E i \in DOMAIN tpc : TaskStart(i)
    \/ \E i \in DOMAIN tpc : MissLock(i)
    \/ \E i \in DOMAIN tpc : MissAppend(i)
    \/ \E i \in DOMAIN tpc : MissErrorCb(i)
    \/ \E i \in DOMAIN tpc : StubReturn(i)
    \/ \E i \in DOMAIN tpc : HttpDo(i)
    \/ \E i \in DOMAIN tpc : runnerKind = "callbacks" /\ ScanNext(i)
    \/ \E i \in DOMAIN tpc : PlainQueryBody(i)
    \/ \E i \in DOMAIN tpc : TaskLock(i)
    \/ \E i \in DOMAIN tpc : TaskRecord(i)
    \/ Wait

SpecCallbacks == Init /\ [][CallbacksNext]_vars

\* the tasks whose registry lookup and provider call both succeeded
Successes == {i \in Tasks : terr[i] = Nil}

Failures == Tasks \ Successes

\* q holds the values f[i], i in S, each as often as it is taken
SameMultiset(q, f, S) ==
    \A x \in Range(q) \cup {f[i] : i \in S} :
      Count(q, x) = Cardinality({i \in S : f[i] = x})

\* C16: whichever callbacks are set (none, any subset of the four, all) and
\* for the runner without callbacks alike, what Run returns is fixed by the
\* model list and by what the registry and the providers returned to each
\* task: an error exactly when no task succeeded, and otherwise Responses,
\* Warnings and FailedModels hold, as multisets, the successful tasks'
\* responses, the failed tasks' "<model>: <err>" texts and the failed tasks'
\* models.
C16_CallbacksDoNotMatter ==
    Returned =>
      /\ runErr = Nil <=> Successes # {}
      /\ runErr # Nil => runResult = NilPtr
      /\ runErr = Nil =>
           /\ SameMultiset(runResult.Responses, tresp, Successes)
           /\ SameMultiset(runResult.Warnings,
                           [i \in Tasks |-> WarningText(models[i], terr[i])], Failures)
           /\ SameMultiset(runResult.FailedModels, models, Failures)

\* a run with only OnModelStream set has returned a response and a failure
C16_Witness ==
    /\ Returned
    /\ callbacks = {"OnModelStream"}
    /\ runErr = Nil
    /\ Len(runResult.Responses) = 1
    /\ Len(runResult.FailedModels) = 1
    /\ \E i \in Tasks : cbLog[i] # <<>>

(* ---------------------------- judge actions ---------------------------- *)

\* NewJudge(p, model)
NewJudge(kind, model) ==
    /\ judge = NilPtr
    /\ judge' = [provider |-> kind, model |-> model]
    /\ UNCHANGED <<jpc, jresponses, jprompt, jcallback, jctxErr, jcalls, jcontent,
                   jchunks, jresp, jperr, jresult, jerr>>
    /\ UNCHANGED <<rvars, xvars>>

\* a relay that never calls the callback
Relay_Drop(chunks, chunk) == chunks

\* `if callback != nil { callback(chunk) }`
Relay(chunks, chunk) == IF jcallback THEN Append(chunks, chunk) ELSE chunks

\* Judge.SynthesizeStream up to its first return or its provider call
\* (Judge.Synthesize is the call with a nil callback)
SynthesizeCall(rs, p, cb) ==
    /\ judge # NilPtr
    /\ jpc = "idle"
    /\ jresponses' = rs
    /\ jprompt' = p
    /\ jcallback' = cb
    /\ CASE SynthesizeBranch(rs) = "fail" ->
              /\ jresult' = ""
              /\ jerr' = "no responses to synthesize"
              /\ jpc' = "done"
              /\ UNCHANGED <<jcalls, jchunks>>
         [] SynthesizeBranch(rs) = "single" ->
              /\ jchunks' = IF cb THEN Append(jchunks, rs[1].Content) ELSE jchunks
              /\ jresult' = rs[1].Content
              /\ jerr' = Nil
              /\ jpc' = "done"
              /\ UNCHANGED jcalls
         [] SynthesizeBranch(rs) = "query" ->
              /\ jcalls' = Append(jcalls,
                     <<"QueryStream", Request(judge.model, ExecuteTemplate(p, rs))>>)
              /\ jpc' = IF judge.provider = "func" THEN "stub" ELSE "do"
              /\ UNCHANGED <<jchunks, jresult, jerr>>
    /\ UNCHANGED <<judge, jctxErr, jcontent, jresp, jperr>>
    /\ UNCHANGED <<rvars, xvars>>

\* the request the judge provider call in progress was given
JudgeRequest == jcalls[Len(jcalls)][2]

\* j.provider.QueryStream of a ProviderFunc, and the end of SynthesizeStream
JudgeStubReturn ==
    /\ jpc = "stub"
    /\ \E fres \in StubOutcomes(jctxErr, JudgeRequest) :
         LET r == ProviderFuncQueryStream(fres)
             ret == SynthesizeReturn(r.resp, r.err)
         IN  /\ jchunks' = IF jcallback THEN jchunks \o r.chunks ELSE jchunks
             /\ jresp' = r.resp
             /\ jperr' = r.err
             /\ jresult' = ret.text
             /\ jerr' = ret.err
    /\ jpc' = "done"
    /\ UNCHANGED <<judge, jresponses, jprompt, jcallback, jctxErr, jcalls, jcontent>>
    /\ UNCHANGED <<rvars, xvars>>

\* j.provider.QueryStream of the Anthropic provider: httpClient.Do and the
\* status check
JudgeHttpDo ==
    /\ jpc = "do"
    /\ \E o \in DoOutcomes(jctxErr) :
         IF o.ok
         THEN /\ jpc' = "scan"
              /\ UNCHANGED <<jresp, jperr, jresult, jerr>>
         ELSE LET ret == SynthesizeReturn(ZeroResponse, o.err)
              IN  /\ jresp' = ZeroResponse
                  /\ jperr' = o.err
                  /\ jresult' = ret.text
                  /\ jerr' = ret.err
                  /\ jpc' = "done"
    /\ UNCHANGED <<judge, jresponses, jprompt, jcallback, jctxErr, jcalls, jcontent,
                   jchunks>>
    /\ UNCHANGED <<rvars, xvars>>

\* j.provider.QueryStream of the Anthropic provider: one pass of the scan
\* loop, or its end and the end of SynthesizeStream
JudgeScanNext ==
    /\ jpc = "scan"
    /\ \E o \in ScanOutcomes(jctxErr, jcontent) :
         CASE o.kind = "delta" ->
                /\ jcontent' = jcontent \o o.chunk
                /\ jchunks' = Relay(jchunks, o.chunk)
                /\ UNCHANGED <<jpc, jresp, jperr, jresult, jerr>>
           [] o.kind = "eof" ->
                LET ret == SynthesizeReturn(AnthropicResponse(JudgeRequest, jcontent), Nil)
                IN  /\ jresp' = AnthropicResponse(JudgeRequest, jcontent)
                    /\ jperr' = Nil
                    /\ jresult' = ret.text
                    /\ jerr' = ret.err
                    /\ jpc' = "done"
                    /\ UNCHANGED <<jcontent, jchunks>>
           [] o.kind = "err" ->
                LET ret == SynthesizeReturn(ZeroResponse, o.err)
                IN  /\ jresp' = ZeroResponse
                    /\ jperr' = o.err
                    /\ jresult' = ret.text
                    /\ jerr' = ret.err
                    /\ jpc' = "done"
                    /\ UNCHANGED <<jcontent, jchunks>>
    /\ UNCHANGED <<judge, jresponses, jprompt, jcallback, jctxErr, jcalls>>
    /\ UNCHANGED <<rvars, xvars>>

\* the context handed to SynthesizeStream is cancelled
JudgeCancel ==
    /\ jctxErr = Nil
    /\ jpc # "done"
    /\ jctxErr' = Canceled
    /\ UNCHANGED <<judge, jpc, jresponses, jprompt, jcallback, jcalls, jcontent,
                   jchunks, jresp, jperr, jresult, jerr>>
    /\ UNCHANGED <<rvars, xvars>>

JudgeModels == {"judge-model"}

JudgeNext ==
    \/ \E kind \in ProviderKinds, m \in JudgeModels : NewJudge(kind, m)
    \/ \E rs \in ResponseLists, p \in Prompts, cb \in BOOLEAN : SynthesizeCall(rs, p, cb)
    \/ JudgeStubReturn
    \/ JudgeHttpDo
    \/ JudgeScanNext
    \/ JudgeCancel

\* the judge on its own, on any response sequence
SpecJudge == Init /\ [][JudgeNext]_vars

(* ======================================================================= *)
(* Properties of Judge.SynthesizeStream, checked under SpecJudge           *)
(* ======================================================================= *)

SynthesizeReturned == jpc = "done"

\* C9: SynthesizeStream (Synthesize with a nil callback) on exactly one
\* response returns that response's Content with a nil error, and the judge
\* provider is never called.
C9_SingleResponsePassthrough ==
    Len(jresponses) = 1 =>
      /\ jcalls = <<>>
      /\ SynthesizeReturned
      /\ jresult = jresponses[1].Content
      /\ jerr = Nil

\* Synthesize has returned the content of its only response
C9_Witness ==
    /\ SynthesizeReturned
    /\ Len(jresponses) = 1
    /\ jresponses[1].Content = StubContent
    /\ jresult = StubContent

\* t occurs in s at position i
OccursAt(s, t, i) == i >= 1 /\ i + Len(t) - 1 <= Len(s) /\ SubSeq(s, i, i + Len(t) - 1) = t

Occurrences(s, t) == {i \in 1..Len(s) : OccursAt(s, t, i)}

\* the texts bs occur in s one after the other, without overlap, from position from on
RECURSIVE OccurInOrder(_, _, _)
OccurInOrder(s, bs, from) ==
    \/ bs = <<>>
    \/ \E i \in from..Len(s) :
         /\ OccursAt(s, Head(bs), i)
         /\ OccurInOrder(s, Tail(bs), i + Len(Head(bs)))

\* the labelled block of response r: header line, then the content
LabelledBlock(r) ==
    "--- Model: " \o r.Model \o " | Provider: " \o r.Provider \o " ---\n" \o r.Content \o "\n"

\* C10: for two or more responses, the prompt of the request sent to the
\* judge provider holds the original prompt under its heading and one labelled
\* block (model name, provider name, content) per response, the blocks in the
\* order of the response sequence, as many block headers as responses.
C10_JudgePromptComplete ==
    \A c \in DOMAIN jcalls :
      LET text == jcalls[c][2].Prompt
      IN  /\ Len(jresponses) >= 2
          /\ Occurrences(text, "User's original prompt:\n" \o jprompt \o "\n") # {}
          /\ OccurInOrder(text, [k \in DOMAIN jresponses |-> LabelledBlock(jresponses[k])], 1)
          /\ Cardinality(Occurrences(text, "--- Model: ")) = Len(jresponses)

\* a request has gone to the judge for two different responses
C10_Witness ==
    /\ jcalls # <<>>
    /\ Len(jresponses) = 2
    /\ jresponses[1].Model # jresponses[2].Model

\* C11: for two or more responses Synthesize sends exactly one request to the
\* judge provider, its Model being the judge's configured model, and when it
\* returns without error it returns the Content of the Response the judge
\* provider returned.
C11_OneJudgeRequest ==
    Len(jresponses) >= 2 =>
      /\ Len(jcalls) = 1
      /\ jcalls[1][2].Model = judge.model
      /\ (SynthesizeReturned /\ jerr = Nil) =>
           /\ jperr = Nil
           /\ jresult = jresp.Content

\* Synthesize (nil callback) has returned the stub judge's content for two
\* responses
C11_Witness ==
    /\ SynthesizeReturned
    /\ Len(jresponses) = 2
    /\ ~jcallback
    /\ jerr = Nil
    /\ jresp.Content = StubContent
    /\ jresult = StubContent

\* C12: Synthesize / SynthesizeStream on an empty response sequence returns
\* within the call an error and the empty string, without any call to the
\* judge provider and without any chunk handed to the callback.
C12_EmptyInputFails ==
    (jpc # "idle" /\ jresponses = <<>>) =>
      /\ SynthesizeReturned
      /\ jerr = "no responses to synthesize"
      /\ jresult = ""
      /\ jcalls = <<>>
      /\ jchunks = <<>>

\* SynthesizeStream was called with a callback and no response, and has returned
C12_Witness ==
    /\ SynthesizeReturned
    /\ jresponses = <<>>
    /\ jcallback
    /\ jerr # Nil

\* C13: when the judge provider call fails, Synthesize returns an error
\* (wrapping the provider's) and the empty string, and the one call to the
\* judge provider that failed is the only provider call it has made.
C13_JudgeFailureNoRetry ==
    (SynthesizeReturned /\ jperr # Nil) =>
      /\ jerr = "judge query failed: " \o jperr
      /\ jresult = ""
      /\ Len(jcalls) = 1
      /\ jcalls[1][2].Model = judge.model

\* the Anthropic judge failed after a chunk of its answer had arrived
C13_Witness ==
    /\ SynthesizeReturned
    /\ jperr # Nil
    /\ judge.provider = "anthropic"
    /\ jcontent # ""

(* ======================================================================= *)
(* Provider.QueryStream of each implementation                             *)
(* ======================================================================= *)

\* lines of a streamed response body scanned by one call at most
MaxLines == 2

\* One line of a server-sent-event body, by what the scan loops look at:
\*   prefix     the line starts with "data: "
\*   shape      of the data after the prefix: "done" for [DONE], "bad" for
\*              text that is not JSON, "anthropic" for a JSON object whose
\*              delta is an object, "openai" for one whose delta is a string,
\*              "plain" for one without a delta
\*   type, deltaType, text   the fields of the event
Line(prefix, shape, type, deltaType, text) ==
    [prefix |-> prefix, shape |-> shape, type |-> type, deltaType |-> deltaType,
     text |-> text]

DeltaTexts == {"p", "q", ""}

LineUniverse ==
    {Line(FALSE, "plain", "", "", ""),
     Line(TRUE, "done", "", "", ""),
     Line(TRUE, "bad", "", "", ""),
     Line(TRUE, "plain", "message_stop", "", ""),
     Line(TRUE, "anthropic", "content_block_delta", "input_json_delta", "")}
    \cup {Line(TRUE, "anthropic", "content_block_delta", "text_delta", t) : t \in DeltaTexts}
    \cup {Line(TRUE, "openai", "response.output_text.delta", "", t) : t \in DeltaTexts}

\* One pass of Anthropic.QueryStream's scan loop over a line: whether the
\* loop breaks, and the chunks written to fullContent and handed to the
\* callback
AnthropicStreamLine(line) ==
    IF /\ line.prefix
       /\ line.shape \in {"anthropic", "plain"}
       /\ line.type = "content_block_delta"
       /\ line.deltaType = "text_delta"
    THEN [brk |-> FALSE, chunks |-> <<line.text>>]
    ELSE [brk |-> FALSE, chunks |-> <<>>]

\* One pass of OpenAI.QueryStream's scan loop over a line
OpenAIStreamLine(line) ==
    IF ~line.prefix THEN [brk |-> FALSE, chunks |-> <<>>]
    ELSE IF line.shape = "done" THEN [brk |-> TRUE, chunks |-> <<>>]
    ELSE IF /\ line.shape \in {"openai", "plain"}
            /\ line.type = "response.output_text.delta"
            /\ line.text # ""
    THEN [brk |-> FALSE, chunks |-> <<line.text>>]
    ELSE [brk |-> FALSE, chunks |-> <<>>]

StreamLine(kind, line) ==
    IF kind = "anthropic" THEN AnthropicStreamLine(line) ELSE OpenAIStreamLine(line)

\* the Response the streaming providers return after the scan loop
StreamResponse(kind, req, fullContent) == Response(req.Model, fullContent, kind)

\* what a function wrapped by a ProviderFunc may answer: any response, any
\* error, ctx.Err() once its context is done
FuncOutcomes(ctxErr, req) ==
    StubOutcomes(ctxErr, req)
    \cup {[resp |-> Response(req.Model, "", "test"), err |-> Nil],
          [resp |-> Response(req.Model, StubContent, "test"), err |-> Boom]}

RECURSIVE Concat(_)
Concat(chunks) ==
    IF chunks = <<>> THEN "" ELSE Head(chunks) \o Concat(Tail(chunks))

\* p.QueryStream(ctx, req, callback) is called
ProviderCall(kind, req, cb) ==
    /\ ppc = "idle"
    /\ pkind' = kind
    /\ preq' = req
    /\ pcb' = cb
    /\ ppc' = IF kind = "func" THEN "stub" ELSE "do"
    /\ UNCHANGED <<pctxErr, pread, pfull, pdelivered, presp, perr>>
    /\ UNCHANGED pOther

\* ProviderFunc.QueryStream
ProviderStubReturn ==
    /\ ppc = "stub"
    /\ \E fres \in FuncOutcomes(pctxErr, preq) :
         LET r == ProviderFuncQueryStream(fres)
         IN  /\ pdelivered' = IF pcb THEN pdelivered \o r.chunks ELSE pdelivered
             /\ presp' = r.resp
             /\ perr' = r.err
    /\ ppc' = "done"
    /\ UNCHANGED <<pkind, preq, pcb, pctxErr, pread, pfull>>
    /\ UNCHANGED pOther

\* Anthropic / OpenAI QueryStream: httpClient.Do and the status check
ProviderHttpDo ==
    /\ ppc = "do"
    /\ \E o \in DoOutcomes(pctxErr) :
         IF o.ok
         THEN /\ ppc' = "scan"
              /\ UNCHANGED <<presp, perr>>
         ELSE /\ presp' = ZeroResponse
              /\ perr' = o.err
              /\ ppc' = "done"
    /\ UNCHANGED <<pkind, preq, pcb, pctxErr, pread, pfull, pdelivered>>
    /\ UNCHANGED pOther

\* Anthropic / OpenAI QueryStream: scanner.Scan() yields a line, which the
\* loop body handles
ProviderScanLine(line) ==
    /\ ppc = "scan"
    /\ pctxErr = Nil
    /\ pread < MaxLines
    /\ pread' = pread + 1
    /\ LET step == StreamLine(pkind, line)
       IN  /\ pfull' = pfull \o Concat(step.chunks)
           /\ pdelivered' = IF pcb THEN pdelivered \o step.chunks ELSE pdelivered
           /\ IF step.brk
              THEN /\ presp' = StreamResponse(pkind, preq, pfull')
                   /\ ppc' = "done"
              ELSE UNCHANGED <<presp, ppc>>
    /\ UNCHANGED <<pkind, preq, pcb, pctxErr, perr>>
    /\ UNCHANGED pOther

\* Anthropic / OpenAI QueryStream: scanner.Scan() returns false, at the end
\* of the body or on a read error (the context's, once it is done)
ProviderScanEnd ==
    /\ ppc = "scan"
    /\ \E e \in (IF pctxErr # Nil THEN {pctxErr} ELSE {Nil, Boom}) :
         IF e = Nil
         THEN /\ presp' = StreamResponse(pkind, preq, pfull)
              /\ UNCHANGED perr
         ELSE /\ perr' = ReadingStreamError(e)
              /\ UNCHANGED presp
    /\ ppc' = "done"
    /\ UNCHANGED <<pkind, preq, pcb, pctxErr, pread, pfull, pdelivered>>
    /\ UNCHANGED pOther

\* the context of the call is cancelled
ProviderCancel ==
    /\ pctxErr = Nil
    /\ ppc # "done"
    /\ pctxErr' = Canceled
    /\ UNCHANGED <<pkind, preq, pcb, ppc, pread, pfull, pdelivered, presp, perr>>
    /\ UNCHANGED pOther

ProviderImpls == {"func", "anthropic", "openai"}

ProviderNext ==
    \/ \E kind \in ProviderImpls, m \in JudgeModels, pr \in Prompts, cb \in BOOLEAN :
         ProviderCall(kind, Request(m, pr), cb)
    \/ ProviderStubReturn
    \/ ProviderHttpDo
    \/ \E line \in LineUniverse : ProviderScanLine(line)
    \/ ProviderScanEnd
    \/ ProviderCancel

\* one QueryStream call on any provider implementation
SpecProvider == Init /\ [][ProviderNext]_vars

QueryStreamReturned == ppc = "done"

\* C14: when QueryStream of a ProviderFunc, the Anthropic or the OpenAI
\* provider has returned without error, the chunks handed to the callback
\* up to then, concatenated in delivery order, are the Content of the
\* returned Response; a ProviderFunc has handed its callback the full content
\* once on success, and nothing on failure.
C14_ChunksMakeContent ==
    (QueryStreamReturned /\ pcb) =>
      /\ perr = Nil => Concat(pdelivered) = presp.Content
      /\ pkind = "func" =>
           pdelivered = IF perr = Nil THEN <<presp.Content>> ELSE <<>>

\* QueryStream of the OpenAI provider has returned a content streamed in two
\* different chunks
C14_Witness ==
    /\ QueryStreamReturned
    /\ pkind = "openai"
    /\ pcb
    /\ perr = Nil
    /\ pdelivered = <<"p", "q">>
    /\ presp.Content = "pq"

(* ======================================================================= *)
(* The Registry under concurrent Register, Get and Models calls            *)
(* ======================================================================= *)

RegModels == {"a", "b"}

\* a write lock that does not wait for the readers to leave
CanLock_IgnoresReaders(writers, readers) == writers = {}

\* sync.RWMutex: Lock() returns once no goroutine holds the mutex
CanLock(writers, readers) == writers = {} /\ readers = {}

\* sync.RWMutex: RLock() returns once no goroutine holds the mutex for writing
CanRLock(writers) == writers = {}

\* Register(model, p) is called
RegisterCall(pr, model, prov) ==
    /\ gpc[pr] = "idle"
    /\ Len(history) + Cardinality({q \in Procs : gpc[q] \in {"regLock", "regWrite", "regWriting"}})
         < MaxRegisters
    /\ gop' = [gop EXCEPT ![pr] = [model |-> model, p |-> prov]]
    /\ gpc' = [gpc EXCEPT ![pr] = "regLock"]
    /\ UNCHANGED <<providers, rwWriters, rwReaders, gsnap, gret, history>>
    /\ UNCHANGED gOther

\* Register: r.mu.Lock()
RegisterLock(pr) ==
    /\ gpc[pr] = "regLock"
    /\ CanLock(rwWriters, rwReaders)
    /\ rwWriters' = rwWriters \cup {pr}
    /\ gpc' = [gpc EXCEPT ![pr] = "regWrite"]
    /\ UNCHANGED <<providers, rwReaders, gop, gsnap, gret, history>>
    /\ UNCHANGED gOther

\* Register: the map assignment `r.providers[model] = p` begins; a Go map
\* write is not atomic, it works on the map as it finds it
RegisterWriteBegin(pr) ==
    /\ gpc[pr] = "regWrite"
    /\ gsnap' = [gsnap EXCEPT ![pr] = providers]
    /\ gpc' = [gpc EXCEPT ![pr] = "regWriting"]
    /\ UNCHANGED <<providers, rwWriters, rwReaders, gop, gret, history>>
    /\ UNCHANGED gOther

\* Register: the map assignment completes
RegisterWriteEnd(pr) ==
    /\ gpc[pr] = "regWriting"
    /\ providers' = Register(gsnap[pr], gop[pr].model, gop[pr].p)
    /\ history' = Append(history, gop[pr])
    /\ gsnap' = [gsnap EXCEPT ![pr] = NewRegistry]
    /\ gpc' = [gpc EXCEPT ![pr] = "regUnlock"]
    /\ UNCHANGED <<rwWriters, rwReaders, gop, gret>>
    /\ UNCHANGED gOther

\* Register: the deferred r.mu.Unlock(), return
RegisterReturn(pr) ==
    /\ gpc[pr] = "regUnlock"
    /\ rwWriters' = rwWriters \ {pr}
    /\ gop' = [gop EXCEPT ![pr] = NoCall]
    /\ gpc' = [gpc EXCEPT ![pr] = "idle"]
    /\ UNCHANGED <<providers, rwReaders, gsnap, gret, history>>
    /\ UNCHANGED gOther

\* Get(model) is called
GetCall(pr, model) ==
    /\ gpc[pr] = "idle"
    /\ gop' = [gop EXCEPT ![pr] = [model |-> model, p |-> Nil]]
    /\ gpc' = [gpc EXCEPT ![pr] = "getRLock"]
    /\ UNCHANGED <<providers, rwWriters, rwReaders, gsnap, gret, history>>
    /\ UNCHANGED gOther

\* Get / Models: r.mu.RLock()
ReadLock(pr) ==
    /\ gpc[pr] \in {"getRLock", "modelsRLock"}
    /\ CanRLock(rwWriters)
    /\ rwReaders' = rwReaders \cup {pr}
    /\ gpc' = [gpc EXCEPT ![pr] = IF gpc[pr] = "getRLock" THEN "getRead" ELSE "modelsRead"]
    /\ UNCHANGED <<providers, rwWriters, gop, gsnap, gret, history>>
    /\ UNCHANGED gOther

\* Get: the map lookup and the result
GetRead(pr) ==
    /\ gpc[pr] = "getRead"
    /\ LET get == RegistryGet(providers, gop[pr].model)
       IN  gret' = [gret EXCEPT ![pr] = [p |-> get.p, err |-> get.err, keys |-> {}]]
    /\ gpc' = [gpc EXCEPT ![pr] = "readUnlock"]
    /\ UNCHANGED <<providers, rwWriters, rwReaders, gop, gsnap, history>>
    /\ UNCHANGED gOther

\* Models() is called
ModelsCall(pr) ==
    /\ gpc[pr] = "idle"
    /\ gpc' = [gpc EXCEPT ![pr] = "modelsRLock"]
    /\ UNCHANGED <<providers, rwWriters, rwReaders, gop, gsnap, gret, history>>
    /\ UNCHANGED gOther

\* Models: the range over the map; the order of the slice is the map's
\* iteration order, so the result is kept as the set of its elements
ModelsRead(pr) ==
    /\ gpc[pr] = "modelsRead"
    /\ gret' = [gret EXCEPT ![pr] = [p |-> Nil, err |-> Nil, keys |-> DOMAIN providers]]
    /\ gpc' = [gpc EXCEPT ![pr] = "readUnlock"]
    /\ UNCHANGED <<providers, rwWriters, rwReaders, gop, gsnap, history>>
    /\ UNCHANGED gOther

\* Get / Models: the deferred r.mu.RUnlock(), return
ReadReturn(pr) ==
    /\ gpc[pr] = "readUnlock"
    /\ rwReaders' = rwReaders \ {pr}
    /\ gop' = [gop EXCEPT ![pr] = NoCall]
    /\ gret' = [gret EXCEPT ![pr] = NoReturn]
    /\ gpc' = [gpc EXCEPT ![pr] = "idle"]
    /\ UNCHANGED <<providers, rwWriters, gsnap, history>>
    /\ UNCHANGED gOther

RegistryNext ==
    \/ \E pr \in Procs, m \in RegModels, prov \in ProviderKinds : RegisterCall(pr, m, prov)
    \/ \E pr \in Procs : RegisterLock(pr)
    \/ \E pr \in Procs : RegisterWriteBegin(pr)
    \/ \E pr \in Procs : RegisterWriteEnd(pr)
    \/ \E pr \in Procs : RegisterReturn(pr)
    \/ \E pr \in Procs, m \in RegModels : GetCall(pr, m)
    \/ \E pr \in Procs : ModelsCall(pr)
    \/ \E pr \in Procs : ReadLock(pr)
    \/ \E pr \in Procs : GetRead(pr)
    \/ \E pr \in Procs : ModelsRead(pr)
    \/ \E pr \in Procs : ReadReturn(pr)

SpecRegistry == Init /\ [][RegistryNext]_vars

\* the Register calls for model m, by position in the order of the writes
RegisteredAt(m) == {k \in DOMAIN history : history[k].model = m}

Max(S) == CHOOSE x \in S : \A y \in S : y <= x

\* what Get(m) has to return after the writes of history
ExpectedGet(m) ==
    IF RegisteredAt(m) = {}
    THEN [p |-> Nil, err |-> "unknown model: " \o m]
    ELSE [p |-> history[Max(RegisteredAt(m))].p, err |-> Nil]

\* C17: after any sequence of Register calls a lookup of m yields the
\* provider of the latest Register for m, and an error with a nil provider
\* when there was none; a Get returns exactly that; and registering a pair a
\* second time, right after the first, leaves the map as it was.
C17_RegisterOverwrites ==
    /\ \A m \in RegModels : RegistryGet(providers, m) = ExpectedGet(m)
    /\ \A pr \in Procs :
         gpc[pr] = "readUnlock" /\ gop[pr].model # "" =>
           /\ gret[pr].p = ExpectedGet(gop[pr].model).p
           /\ gret[pr].err = ExpectedGet(gop[pr].model).err
    /\ \A m \in RegModels, prov \in ProviderKinds :
         Register(Register(providers, m, prov), m, prov) = Register(providers, m, prov)

\* a model was registered twice with different providers, and a Get of it
\* is returning the second one
C17_Witness ==
    /\ Len(history) = 2
    /\ history[1].model = history[2].model
    /\ history[1].p # history[2].p
    /\ \E pr \in Procs :
         /\ gpc[pr] = "readUnlock"
         /\ gop[pr].model = history[2].model
         /\ gret[pr].p = history[2].p

\* the goroutines that are reading the map under the read lock
Reading == {pr \in Procs : gpc[pr] \in {"getRead", "modelsRead"}}

\* the goroutines whose map write is under way
Writing == {pr \in Procs : gpc[pr] = "regWriting"}

\* C18: the write lock is exclusive (one writer, and no reader beside it),
\* so no Get or Models reads the map while a Register's map write is under
\* way and no two writes overlap; every completed Register is retained: its
\* model is in the map, whichever goroutines registered other models
\* meanwhile.
C18_RegistryLocking ==
    /\ Cardinality(rwWriters) <= 1
    /\ rwWriters # {} => rwReaders = {}
    /\ Writing \subseteq rwWriters
    /\ Reading \subseteq rwReaders
    /\ Writing # {} => Reading = {}
    /\ \A k \in DOMAIN history : history[k].model \in DOMAIN providers

\* a first Register is retained, the map write of a second one for another
\* model is under way, and a Get is waiting for the read lock
C18_Witness ==
    /\ Len(history) = 1
    /\ history[1].model \in DOMAIN providers
    /\ \E pr, qr \in Procs :
         /\ gpc[pr] = "regWriting"
         /\ gop[pr].model # history[1].model
         /\ gpc[qr] = "getRLock"

(* ======================================================================= *)
(* The command-line pipeline: main.run                                     *)
(* ======================================================================= *)

\* knownModels; "a" and "b" stand for two of its Anthropic models
KnownModels == {"a", "b"}

\* the values of --models: each model is named once
CliModelLists == {ms \in ModelLists : NoDuplicates(ms)}

\* the values of --judge
CliJudges == {"b", "u"}

\* the values of --output
OutputPaths == {"", "out.json"}

\* generateRunID()
RunID == "20260112-143052-a1b2c3"

\* filepath.Join(cfg.dataDir, runID), --data-dir left at "data"
RunDir == "data/" \o RunID

FlagSets ==
    [output : OutputPaths, json : BOOLEAN, noSave : BOOLEAN, quiet : BOOLEAN,
     tty : BOOLEAN]

\* showUI := ui.IsTerminal(os.Stderr) && !cfg.quiet && !cfg.json
ShowUI(fl) == fl.tty /\ ~fl.quiet /\ ~fl.json

\* the auto-save branch of "Determine output path"
AutoSave(fl) == fl.output = "" /\ ~fl.json /\ ~fl.noSave

\* outputPath after "Determine output path"
OutputPath(fl) ==
    IF fl.output # "" THEN fl.output
    ELSE IF AutoSave(fl) THEN RunDir \o "/result.json"
    ELSE ""

\* the branch of "Write output" taken
Destination(fl) ==
    IF OutputPath(fl) # "" THEN "file"
    ELSE IF fl.json THEN "stdout"
    ELSE IF ShowUI(fl) THEN "terminal"
    ELSE "stdout"

\* a Result built from the responses the judge was handed, newest first, and
\* without the warnings
OutputResult_Reworked(c, result, consensusResp) ==
    [Prompt |-> c.prompt,
     Responses |-> [i \in DOMAIN result.Responses |->
                      result.Responses[Len(result.Responses) + 1 - i]],
     Consensus |-> consensusResp, Judge |-> c.judge, Warnings |-> <<>>,
     FailedModels |-> result.FailedModels]

\* output.Result
OutputResult(c, result, consensusResp) ==
    [Prompt |-> c.prompt, Responses |-> result.Responses, Consensus |-> consensusResp,
     Judge |-> c.judge, Warnings |-> result.Warnings,
     FailedModels |-> result.FailedModels]

\* parseFlags: --models is required; the prompt is given
CliParse(ms, jm, pr) ==
    /\ cpc = "start"
    /\ IF ms = <<>>
       THEN /\ cliErr' = "--models flag is required"
            /\ cpc' = "exit"
            /\ UNCHANGED cfg
       ELSE /\ cfg' = [models |-> ms, judge |-> jm, prompt |-> pr]
            /\ cpc' = "init"
            /\ UNCHANGED cliErr
    /\ UNCHANGED <<cflags, out, stdout, files, printed>>
    /\ UNCHANGED <<rvars, jvars, cOther>>

\* the models initRegistry needs: the requested ones and the judge
Needed(c) == Range(c.models) \cup {c.judge}

\* an initRegistry that leaves the judge out of the needed models
CliInitRegistry_ModelsOnly(keyOK) ==
    /\ cpc = "init"
    /\ rpc = "idle"
    /\ IF Range(cfg.models) \subseteq KnownModels /\ keyOK
       THEN /\ registry' = [m \in Range(cfg.models) |-> "anthropic"]
            /\ callbacks' = AllCallbacks
            /\ cpc' = "ready"
            /\ UNCHANGED cliErr
       ELSE /\ \E m \in (IF keyOK THEN Range(cfg.models) \ KnownModels
                         ELSE Range(cfg.models) \cap KnownModels) :
                 cliErr' = "initializing provider for " \o m \o ": " \o
                           (IF keyOK THEN "unknown model" ELSE "ANTHROPIC_API_KEY not set")
            /\ cpc' = "exit"
            /\ UNCHANGED <<registry, callbacks>>
    /\ UNCHANGED <<cfg, cflags, out, stdout, files, printed>>
    /\ UNCHANGED <<models, prompt, rpc, launched, parentErr, gctxErr, gErr, tpc,
                   mctxErr, content, tresp, terr, mu, responses, warnings,
                   failedModels, runResult, runErr, cbLog, calls, timerFired,
                   inflightAtCancel>>
    /\ UNCHANGED <<jvars, cOther>>

\* initRegistry, runner.New and WithCallbacks: a provider is created for
\* every needed model, or the first failure (a model not in knownModels, a
\* provider that cannot be constructed) is returned and nothing is kept
CliInitRegistry(keyOK) ==
    /\ cpc = "init"
    /\ rpc = "idle"
    /\ IF Needed(cfg) \subseteq KnownModels /\ keyOK
       THEN /\ registry' = [m \in Needed(cfg) |-> "anthropic"]
            /\ callbacks' = AllCallbacks
            /\ cpc' = "ready"
            /\ UNCHANGED cliErr
       ELSE /\ \E m \in (IF keyOK THEN Needed(cfg) \ KnownModels ELSE Needed(cfg) \cap KnownModels) :
                 cliErr' = "initializing provider for " \o m \o ": " \o
                           (IF keyOK THEN "unknown model" ELSE "ANTHROPIC_API_KEY not set")
            /\ cpc' = "exit"
            /\ UNCHANGED <<registry, callbacks>>
    /\ UNCHANGED <<cfg, cflags, out, stdout, files, printed>>
    /\ UNCHANGED <<models, prompt, rpc, launched, parentErr, gctxErr, gErr, tpc,
                   mctxErr, content, tresp, terr, mu, responses, warnings,
                   failedModels, runResult, runErr, cbLog, calls, timerFired,
                   inflightAtCancel>>
    /\ UNCHANGED <<jvars, cOther>>

\* r.Run(ctx, cfg.models, cfg.prompt) is called
CliRun ==
    /\ cpc = "ready"
    /\ RunCall(cfg.models, cfg.prompt)

\* SIGINT / SIGTERM: the context of signal.NotifyContext, which Run and
\* SynthesizeStream are both given, is cancelled
CliSignal ==
    /\ cpc \in {"init", "ready", "judge"}
    /\ parentErr = Nil
    /\ parentErr' = Canceled
    /\ jctxErr' = Canceled
    /\ IF rpc = "returned"
       THEN UNCHANGED <<gctxErr, mctxErr, inflightAtCancel>>
       ELSE /\ gctxErr' = IF rpc = "idle" THEN gctxErr ELSE Cancelled(gctxErr, Canceled)
            /\ mctxErr' = CancelContexts
            /\ inflightAtCancel' = {i \in DOMAIN tpc : InCall(i)}
    /\ UNCHANGED <<registry, callbacks, models, prompt, rpc, launched, gErr, tpc,
                   content, tresp, terr, mu, responses, warnings, failedModels,
                   runResult, runErr, cbLog, calls, timerFired>>
    /\ UNCHANGED <<judge, jpc, jresponses, jprompt, jcallback, jcalls, jcontent,
                   jchunks, jresp, jperr, jresult, jerr>>
    /\ UNCHANGED <<cvars, cOther>>

\* Run has returned
RunFinished == rpc = "returned"

\* after Run: its error ends run(); otherwise registry.Get(cfg.judge) and
\* consensus.NewJudge
CliAfterRun ==
    /\ cpc = "ready"
    /\ RunFinished
    /\ LET get == RegistryGet(registry, cfg.judge)
       IN  IF runErr # Nil
           THEN /\ cliErr' = "running queries: " \o runErr
                /\ cpc' = "exit"
                /\ UNCHANGED judge
           ELSE IF get.err # Nil
           THEN /\ cliErr' = "judge model " \o cfg.judge \o ": " \o get.err
                /\ cpc' = "exit"
                /\ UNCHANGED judge
           ELSE /\ judge' = [provider |-> get.p, model |-> cfg.judge]
                /\ cpc' = "judge"
                /\ UNCHANGED cliErr
    /\ UNCHANGED <<jpc, jresponses, jprompt, jcallback, jctxErr, jcalls, jcontent,
                   jchunks, jresp, jperr, jresult, jerr>>
    /\ UNCHANGED <<cfg, cflags, out, stdout, files, printed>>
    /\ UNCHANGED <<rvars, cOther>>

\* judge.SynthesizeStream(ctx, cfg.prompt, result.Responses, callback)
CliSynthesize ==
    /\ cpc = "judge"
    /\ SynthesizeCall(runResult.Responses, cfg.prompt, TRUE)

\* after SynthesizeStream, with the judge's error handed on as it came
CliJudgeDone_Unwrapped ==
    /\ cpc = "judge"
    /\ jpc = "done"
    /\ IF jerr # Nil
       THEN /\ cliErr' = jerr
            /\ cpc' = "exit"
            /\ UNCHANGED out
       ELSE /\ out' = OutputResult(cfg, runResult, jresult)
            /\ cpc' = "output"
            /\ UNCHANGED cliErr
    /\ UNCHANGED <<cfg, cflags, stdout, files, printed>>
    /\ UNCHANGED <<rvars, jvars, cOther>>

\* after SynthesizeStream: its error ends run(); otherwise the output.Result
\* is built
CliJudgeDone ==
    /\ cpc = "judge"
    /\ jpc = "done"
    /\ IF jerr # Nil
       THEN /\ cliErr' = "consensus synthesis: " \o jerr
            /\ cpc' = "exit"
            /\ UNCHANGED out
       ELSE /\ out' = OutputResult(cfg, runResult, jresult)
            /\ cpc' = "output"
            /\ UNCHANGED cliErr
    /\ UNCHANGED <<cfg, cflags, stdout, files, printed>>
    /\ UNCHANGED <<rvars, jvars, cOther>>

\* "Determine output path" and "Write output".  The flags read here (and by
\* showUI, which only governs what is printed to stderr) are fixed by
\* parseFlags and read nowhere before, so they are drawn here.  fsOK: the
\* run directory and the output file can be created.
CliOutput(fl, fsOK) ==
    /\ cpc = "output"
    /\ Destination(fl) # "file" => fsOK
    /\ cflags' = fl
    /\ cpc' = "exit"
    /\ IF Destination(fl) = "file"
       THEN IF fsOK
            THEN /\ files' = {OutputPath(fl)}
                       \cup (IF AutoSave(fl)
                             THEN {RunDir \o "/prompt.txt", RunDir \o "/consensus.md"}
                             ELSE {})
                 /\ UNCHANGED cliErr
            ELSE /\ cliErr' = IF AutoSave(fl) THEN "creating run directory: " \o Boom
                              ELSE "creating output file: " \o Boom
                 /\ UNCHANGED files
       ELSE UNCHANGED <<files, cliErr>>
    /\ stdout' = IF Destination(fl) = "stdout" THEN Append(stdout, out) ELSE stdout
    /\ printed' = (Destination(fl) = "terminal")
    /\ UNCHANGED <<cfg, out>>
    /\ UNCHANGED <<rvars, jvars, cOther>>

CliNext ==
    \/ \E ms \in CliModelLists, jm \in CliJudges, pr \in Prompts : CliParse(ms, jm, pr)
    \/ \E keyOK \in BOOLEAN : CliInitRegistry(keyOK)
    \/ CliRun
    \/ Launch
    \/ \E i \in DOMAIN tpc : TaskStart(i)
    \/ \E i \in DOMAIN tpc : HttpDo(i)
    \/ \E i \in DOMAIN tpc : ScanNext(i)
    \/ \E i \in DOMAIN tpc : TaskLock(i)
    \/ \E i \in DOMAIN tpc : TaskRecord(i)
    \/ \E i \in DOMAIN tpc : Timeout(i)
    \/ Wait
    \/ CliSignal
    \/ CliAfterRun
    \/ CliSynthesize
    \/ JudgeHttpDo
    \/ JudgeScanNext
    \/ CliJudgeDone
    \/ \E fl \in FlagSets, fsOK \in BOOLEAN : CliOutput(fl, fsOK)

SpecCLI == Init /\ [][CliNext]_vars

\* C19: in the pipeline the judge works only after Run has returned, when
\* every model task has ended: SynthesizeStream is not entered and no request
\* reaches the judge provider before; and a run sends the judge provider at
\* most one request.
C19_JudgeAfterRun ==
    /\ (judge # NilPtr \/ jpc # "idle" \/ jcalls # <<>>) =>
         /\ RunFinished
         /\ runErr = Nil
         /\ \A i \in Tasks : tpc[i] = "done"
    /\ Len(jcalls) <= 1

\* two models have answered, Run has returned and the one request to the
\* judge provider is under way
C19_Witness ==
    /\ cpc = "judge"
    /\ Len(runResult.Responses) = 2
    /\ Len(jcalls) = 1
    /\ jpc = "scan"

\* the CLI was given --models and a prompt and nothing else
OnlyModelsAndPrompt == cflags.output = "" /\ ~cflags.json /\ ~cflags.noSave /\ ~cflags.quiet

\* C20, as stated: when run() ends without error for a command line of only
\* --models and a prompt, stderr not being a terminal, the JSON result record
\* has been written to standard output.
C20_PipedJsonOnStdout ==
    (cpc = "exit" /\ cliErr = Nil /\ out # NilPtr /\ OnlyModelsAndPrompt /\ ~cflags.tty) =>
      stdout = <<out>>

\* run() has ended without error for such a command line: the record went to
\* result.json in the run directory and nothing was written to standard output
C20_Witness ==
    /\ cpc = "exit"
    /\ cliErr = Nil
    /\ out # NilPtr
    /\ OnlyModelsAndPrompt
    /\ ~cflags.tty
    /\ stdout = <<>>
    /\ (RunDir \o "/result.json") \in files

\* C29: from its call to its return, with a result or an error, the
\* responses the judge works on are the ones Run returned, in their order;
\* and the Result run() builds carries the responses, warnings and failed
\* models exactly as Run returned (and collected) them.
C29_JudgeOnlyReads ==
    /\ jpc # "idle" =>
         /\ runErr = Nil
         /\ jresponses = runResult.Responses
         /\ runResult.Responses = responses
    /\ out # NilPtr =>
         /\ out.Responses = runResult.Responses
         /\ out.Warnings = runResult.Warnings
         /\ out.FailedModels = runResult.FailedModels
         /\ out.Responses = responses
         /\ out.Warnings = warnings
         /\ out.FailedModels = failedModels

\* the judge provider has answered its one request for two different
\* responses and run() has built the Result
C29_Witness ==
    /\ out # NilPtr
    /\ SynthesizeReturned
    /\ Len(jcalls) = 1
    /\ Len(out.Responses) = 2
    /\ out.Responses[1] # out.Responses[2]

(* ------------------------- the JSON of a Result ------------------------- *)

\* the latencies time.Since(start) may yield: none, 1.5 ms, 1234 ms
Latencies == {0, 1500000, 1234 * Millisecond}

\* the responses a successful Run hands over, each with its latency
TimedResponses ==
    {TimedResponse(r, d) : r \in ResponseUniverse, d \in Latencies}

\* Result.Warnings and Result.FailedModels: nil or filled
WarningLists == {<<>>, <<"b: " \o Boom>>}

FailedLists == {<<>>, <<"b">>}

\* the texts the judge may return
ConsensusTexts == {"", "4"}

\* a JSON object with no member
EmptyObject == [n \in {} |-> ""]

\* a struct field tagged `json:"name"`
Member(name, v) == name :> v

\* a struct field tagged `json:"name,omitempty"`: left out when the slice is
\* nil or has no element
Omitempty_Keep(name, v) == name :> v

Omitempty(name, v) == IF Len(v) = 0 THEN EmptyObject ELSE name :> v

\* encoding/json on provider.Response: a time.Duration has no encoder of its
\* own and is written as the integer it is, under the name of the field's tag
EncodeResponse(r) ==
    Member("model", r.Model) @@ Member("content", r.Content)
      @@ Member("provider", r.Provider) @@ Member("latency_ms", r.Latency)

\* encoding/json on output.Result
EncodeResult(r) ==
    Member("prompt", r.Prompt)
      @@ Member("responses", [i \in DOMAIN r.Responses |-> EncodeResponse(r.Responses[i])])
      @@ Member("consensus", r.Consensus)
      @@ Member("judge", r.Judge)
      @@ Omitempty("warnings", r.Warnings)
      @@ Omitempty("failed_models", r.FailedModels)

\* run() builds out from the prompt, what Run returned and what the judge returned
OutputBuild(pr, rs, cons, jm, ws, fs) ==
    /\ opc = "idle"
    /\ oenc' = [oenc EXCEPT
                  !.opc = "built",
                  !.orec = [Prompt |-> pr, Responses |-> rs, Consensus |-> cons,
                            Judge |-> jm, Warnings |-> ws, FailedModels |-> fs]]
    /\ UNCHANGED oOther

\* enc.Encode(out)
OutputEncode ==
    /\ opc = "built"
    /\ oenc' = [oenc EXCEPT !.opc = "encoded", !.ojson = EncodeResult(orec)]
    /\ UNCHANGED oOther

OutputNext ==
    \/ \E pr \in Prompts, rs \in SeqsUpTo(TimedResponses, MaxResponses) \ {<<>>},
          cons \in ConsensusTexts, jm \in JudgeModels, ws \in WarningLists,
          fs \in FailedLists :
            OutputBuild(pr, rs, cons, jm, ws, fs)
    \/ OutputEncode

SpecOutput == Init /\ [][OutputNext]_vars

\* Duration.Milliseconds()
Milliseconds(d) == d \div Millisecond

\* C21: in the JSON written, each response's latency_ms is the latency of
\* that response's query in milliseconds.
C21_LatencyInMilliseconds ==
    opc = "encoded" =>
      \A i \in DOMAIN orec.Responses :
        ojson.responses[i].latency_ms = Milliseconds(orec.Responses[i].Latency)

\* a response that took 1234 ms has been written
C21_Witness ==
    /\ opc = "encoded"
    /\ \E i \in DOMAIN orec.Responses : orec.Responses[i].Latency = 1234 * Millisecond

\* the names of a Result's members that are always written
RequiredNames == {"prompt", "responses", "consensus", "judge"}

RunNext ==
    \/ \E ms \in ModelLists, p \in Prompts : RunCall(ms, p)
    \/ Launch
    \/ \E i \in DOMAIN tpc : TaskStart(i)
    \/ \E i \in DOMAIN tpc : MissLock(i)
    \/ \E i \in DOMAIN tpc : MissAppend(i)
    \/ \E i \in DOMAIN tpc : MissErrorCb(i)
    \/ \E i \in DOMAIN tpc : StubReturn(i)
    \/ \E i \in DOMAIN tpc : HttpDo(i)
    \/ \E i \in DOMAIN tpc : ScanNext(i)
    \/ \E i \in DOMAIN tpc : TaskLock(i)
    \/ \E i \in DOMAIN tpc : TaskRecord(i)
    \/ \E i \in DOMAIN tpc : Timeout(i)
    \/ CancelParent
    \/ Wait

SpecRun == Init /\ [][RunNext]_vars

\* C23: no task hands an error to the errgroup: the group never holds an
\* error, its context is done only when the caller's is, a running task's
\* context is cancelled only by the caller, and Run returns either a result
\* with at least one response or, when no response was collected, the
\* "all models failed" error and nothing else.
C23_NoTaskFailsTheRun ==
    /\ gErr = Nil
    /\ rpc = "launch" => gctxErr = parentErr
    /\ \A j \in DOMAIN tpc :
         (Live(j) /\ mctxErr[j] = Canceled) => parentErr = Canceled
    /\ Returned =>
         /\ runErr \in {Nil, AllFailedError(warnings)}
         /\ runErr # Nil <=> responses = <<>>
         /\ runErr # Nil <=> runResult = NilPtr

\* a task has failed (its provider's own error, nothing cancelled, no timer
\* fired) while another task's provider call is still running with a live
\* context
C23_Witness ==
    /\ parentErr = Nil
    /\ timerFired = {}
    /\ \E i, j \in DOMAIN tpc :
         /\ tpc[i] = "done"
         /\ QueryFailed(i)
         /\ InCall(j)
         /\ mctxErr[j] = Nil

\* C25: Responses grows only at its end and only by the response of the task
\* that holds the mutex after its provider call succeeded, so its order is
\* the order in which the successful tasks took the mutex, whatever their
\* places in the model list; Run returns Responses as collected.
C25_CompletionOrder ==
    [][/\ rpc = "launch" =>
            \/ responses' = responses
            \/ /\ mu \in DOMAIN tpc
               /\ tpc[mu] = "cs"
               /\ terr[mu] = Nil
               /\ responses' = Append(responses, tresp[mu])
       /\ (rpc = "launch" /\ rpc' = "returned" /\ runErr' = Nil) =>
            runResult'.Responses = responses]_vars

\* Run was asked for a then b and has returned b's response before a's
C25_Witness ==
    /\ Returned
    /\ runErr = Nil
    /\ Len(models) = 2
    /\ models[1] # models[2]
    /\ Len(runResult.Responses) = 2
    /\ runResult.Responses[1] = tresp[2]
    /\ runResult.Responses[2] = tresp[1]
    /\ runResult.Responses[1].Model = models[2]
    /\ runResult.Responses[2].Model = models[1]

\* C27: Run has one task per entry of the model list; a task issues no
\* request before its registry lookup and none if its model is not
\* registered, and otherwise exactly one, for its own entry's model and with
\* the prompt Run was given; when Run returns every entry's task has run.
C27_OneRequestPerEntry ==
    rpc # "idle" =>
      /\ DOMAIN tpc = 1..Len(models)
      /\ launched <= Len(models)
      /\ \A i \in DOMAIN tpc :
           /\ tpc[i] = "new" <=> i > launched
           /\ Len(calls[i]) <= 1
           /\ Len(calls[i]) = 1 <=>
                (tpc[i] \notin {"new", "start"} /\ models[i] \in DOMAIN registry)
           /\ Len(calls[i]) = 1 =>
                calls[i][1] = [Model |-> models[i], Prompt |-> prompt]
      /\ Returned => \A i \in DOMAIN tpc : tpc[i] = "done"

\* Run was given the same registered model twice and has returned: each of
\* the two entries had its own request
C27_Witness ==
    /\ Returned
    /\ Len(models) = 2
    /\ models[1] = models[2]
    /\ models[1] \in DOMAIN registry
    /\ Len(calls[1]) = 1
    /\ Len(calls[2]) = 1

\* C28: from the call of Run on, no step changes the registry: the models
\* registered and their providers are after Run what they were before it,
\* whether Run returns a result or an error.
C28_RegistryReadOnly ==
    [][(rpc # "idle" \/ rpc' # "idle") => registry' = registry]_vars

\* Run has returned its error after a lookup of a model that is not registered
\* and a failed query of one that is, and the registry holds what New was given
C28_Witness ==
    /\ Returned
    /\ runErr # Nil
    /\ \E i \in Tasks : Unregistered(i)
    /\ \E i \in Tasks : QueryFailed(i)
    /\ registry = Register(Register(NewRegistry, "a", "func"), "b", "anthropic")

\* What task i does by itself once it is launched: every step of the task
\* function outside the provider call, and the provider's steps once the
\* context of the call is done (a provider may hold a call with a live
\* context back for ever, but returns when the context is done).
TaskStep(i) ==
    /\ i \in DOMAIN tpc
    /\ \/ TaskStart(i)
       \/ MissLock(i)
       \/ MissAppend(i)
       \/ MissErrorCb(i)
       \/ TaskLock(i)
       \/ TaskRecord(i)
       \/ (mctxErr[i] # Nil /\ (StubReturn(i) \/ HttpDo(i) \/ ScanNext(i)))

\* the timer of task i's context fires while the provider call runs
TimerStep(i) == i \in DOMAIN tpc /\ Timeout(i)

\* the model lists of the runs checked for termination: any list of one or
\* two models, and longer lists that name each model once
FairModelLists == {ms \in ModelLists : Len(ms) <= 2 \/ NoDuplicates(ms)}

FairNext ==
    \/ \E ms \in FairModelLists, p \in Prompts : RunCall(ms, p)
    \/ Launch
    \/ \E i \in DOMAIN tpc : TaskStart(i)
    \/ \E i \in DOMAIN tpc : MissLock(i)
    \/ \E i \in DOMAIN tpc : MissAppend(i)
    \/ \E i \in DOMAIN tpc : MissErrorCb(i)
    \/ \E i \in DOMAIN tpc : StubReturn(i)
    \/ \E i \in DOMAIN tpc : HttpDo(i)
    \/ \E i \in DOMAIN tpc : ScanNext(i)
    \/ \E i \in DOMAIN tpc : TaskLock(i)
    \/ \E i \in DOMAIN tpc : TaskRecord(i)
    \/ \E i \in DOMAIN tpc : Timeout(i)
    \/ CancelParent
    \/ Wait

\* Run under the Go scheduler: the goroutine of Run and every task goroutine
\* keep being scheduled, and every per-model timer fires after r.timeout.
\* Nothing is assumed of the caller's cancellation.
SpecRunFair ==
    /\ Init
    /\ [][FairNext]_vars
    /\ WF_vars(Launch)
    /\ WF_vars(Wait)
    /\ \A i \in 1..MaxModels : WF_vars(TaskStep(i)) /\ WF_vars(TimerStep(i))

\* the provider call of task i is running on a context that is done (its own
\* timer fired or the caller cancelled)
CallOnDoneContext(i) == i \in DOMAIN tpc /\ InCall(i) /\ mctxErr[i] # Nil

TaskEnded(i) == i \in DOMAIN tpc /\ tpc[i] = "done"

\* C26: once Run is called it returns, and a task whose provider call is
\* running when its context is done (timer or cancellation) ends.
C26_RunReturns ==
    /\ (rpc = "launch") ~> Returned
    /\ \A i \in 1..MaxModels : CallOnDoneContext(i) ~> TaskEnded(i)

\* Run has returned after the timer of a task fired during its provider call,
\* the caller's context being live to the end
C26_Witness ==
    /\ Returned
    /\ timerFired # {}
    /\ parentErr = Nil

(* ======================================================================= *)
(* Run with the steps a task takes under the mutex told apart              *)
(* ======================================================================= *)

\* the appends followed by mu.Unlock(), the callback left to run unlocked
TaskAppend_Unlock(i) ==
    /\ tpc[i] = "cs"
    /\ mu = i
    /\ IF terr[i] # Nil
       THEN /\ warnings' = Append(warnings, WarningText(models[i], terr[i]))
            /\ failedModels' = Append(failedModels, models[i])
            /\ UNCHANGED responses
       ELSE /\ responses' = Append(responses, tresp[i])
            /\ UNCHANGED <<warnings, failedModels>>
    /\ mu' = 0
    /\ tpc' = [tpc EXCEPT ![i] = "cb"]
    /\ UNCHANGED <<registry, callbacks, models, prompt, rpc, launched, parentErr,
                   gctxErr, gErr, mctxErr, content, tresp, terr, runResult,
                   runErr, cbLog, calls, timerFired, inflightAtCancel>>
    /\ UNCHANGED <<jvars, xvars>>

\* after QueryStream, under the mutex: the appends of the failure or of the
\* response.  The mutex stays locked: mu.Unlock() is deferred.
TaskAppend(i) ==
    /\ tpc[i] = "cs"
    /\ mu = i
    /\ IF terr[i] # Nil
       THEN /\ warnings' = Append(warnings, WarningText(models[i], terr[i]))
            /\ failedModels' = Append(failedModels, models[i])
            /\ UNCHANGED responses
       ELSE /\ responses' = Append(responses, tresp[i])
            /\ UNCHANGED <<warnings, failedModels>>
    /\ tpc' = [tpc EXCEPT ![i] = "cb"]
    /\ UNCHANGED <<registry, callbacks, models, prompt, rpc, launched, parentErr,
                   gctxErr, gErr, mctxErr, content, tresp, terr, mu, runResult,
                   runErr, cbLog, calls, timerFired, inflightAtCancel>>
    /\ UNCHANGED <<jvars, xvars>>

\* after the appends: OnModelError or OnModelComplete is called and returns,
\* the task function returns nil, and the deferred mu.Unlock() and cancel() run
TaskNotify(i) ==
    /\ tpc[i] = "cb"
    /\ mu = i
    /\ cbLog' = [cbLog EXCEPT ![i] =
                   IF terr[i] # Nil
                   THEN Invoke(@, "OnModelError", models[i], terr[i])
                   ELSE Invoke(@, "OnModelComplete", models[i], "")]
    /\ mu' = 0
    /\ tpc' = [tpc EXCEPT ![i] = "done"]
    /\ LET g == GroupDone(i, TaskReturnValue(terr[i]))
       IN  /\ gErr' = g.gErr
           /\ gctxErr' = g.gctxErr
           /\ mctxErr' = g.mctxErr
    /\ UNCHANGED <<registry, callbacks, models, prompt, rpc, launched, parentErr,
                   content, tresp, terr, responses, warnings, failedModels,
                   runResult, runErr, calls, timerFired, inflightAtCancel>>
    /\ UNCHANGED <<jvars, xvars>>

\* Runs with the caller's context staying live and no timer firing: what a
\* task does with the mutex does not depend on its context.
MutexNext ==
    \/ \E cb \in CallbackChoices : WithCallbacks(cb)
    \/ \E ms \in ModelLists, p \in Prompts : RunCall(ms, p)
    \/ Launch
    \/ \E i \in DOMAIN tpc : TaskStart(i)
    \/ \E i \in DOMAIN tpc : MissLock(i)
    \/ \E i \in DOMAIN tpc : MissAppend(i)
    \/ \E i \in DOMAIN tpc : MissErrorCb(i)
    \/ \E i \in DOMAIN tpc : StubReturn(i)
    \/ \E i \in DOMAIN tpc : HttpDo(i)
    \/ \E i \in DOMAIN tpc : ScanNext(i)
    \/ \E i \in DOMAIN tpc : TaskLock(i)
    \/ \E i \in DOMAIN tpc : TaskAppend(i)
    \/ \E i \in DOMAIN tpc : TaskNotify(i)
    \/ Wait

SpecMutex == Init /\ [][MutexNext]_vars

\* a task is at the appends it makes under the mutex
AtAppend(i) == tpc[i] \in {"missCS", "cs"}

ServerReplies == [ok : BOOLEAN, texts : SeqsUpTo(DeltaTexts, MaxLines)]

\* the content blocks of the reply's body as Anthropic.Query parses it: the
\* generated text in one block, no block when nothing was generated
AnthropicContent(reply) ==
    IF reply.texts = <<>> THEN <<>> ELSE <<Concat(reply.texts)>>

\* Anthropic.Query from the status check on
AnthropicQuery(req, reply) ==
    IF ~reply.ok THEN [resp |-> ZeroResponse, err |-> ApiError]
    ELSE IF Len(AnthropicContent(reply)) = 0
    THEN [resp |-> ZeroResponse, err |-> "no content in response"]
    ELSE [resp |-> Response(req.Model, AnthropicContent(reply)[1], "anthropic"),
          err |-> Nil]

\* extractResponseText on the reply's output_text items
ExtractResponseText(reply) == Concat(reply.texts)

\* OpenAI.Query from the status check on
OpenAIQuery(req, reply) ==
    IF ~reply.ok THEN [resp |-> ZeroResponse, err |-> ApiError]
    ELSE IF ExtractResponseText(reply) = ""
    THEN [resp |-> ZeroResponse, err |-> "no content in response"]
    ELSE [resp |-> Response(req.Model, ExtractResponseText(reply), "openai"),
          err |-> Nil]

\* the same reply as a streamed body: one text delta event per fragment, then
\* the event that ends the stream
StreamBody(kind, reply) ==
    IF kind = "anthropic"
    THEN [i \in 1..Len(reply.texts) |->
            Line(TRUE, "anthropic", "content_block_delta", "text_delta", reply.texts[i])]
         \o <<Line(TRUE, "plain", "message_stop", "", "")>>
    ELSE [i \in 1..Len(reply.texts) |->
            Line(TRUE, "openai", "response.output_text.delta", "", reply.texts[i])]
         \o <<Line(TRUE, "done", "", "", "")>>

\* the scan loop of QueryStream over a body: fullContent
RECURSIVE ScanBody(_, _)
ScanBody(kind, lines) ==
    IF lines = <<>> THEN ""
    ELSE LET step == StreamLine(kind, Head(lines))
         IN  IF step.brk THEN Concat(step.chunks)
             ELSE Concat(step.chunks) \o ScanBody(kind, Tail(lines))

\* Anthropic / OpenAI QueryStream from the status check on
StreamQuery(kind, req, reply) ==
    IF ~reply.ok THEN [resp |-> ZeroResponse, err |-> ApiError]
    ELSE [resp |-> StreamResponse(kind, req, ScanBody(kind, StreamBody(kind, reply))),
          err |-> Nil]

\* the server answers the request of a provider
QueryServe(kind, req, reply) ==
    /\ qpc = "idle"
    /\ qcall' = [qcall EXCEPT !.qpc = "served", !.qkind = kind, !.qreq = req,
                              !.qreply = reply]
    /\ UNCHANGED qOther

\* p.Query(ctx, req) on the reply
QueryAnswer ==
    /\ qpc = "served"
    /\ qcall' = [qcall EXCEPT
                   !.qpc = "queried",
                   !.qres = IF qkind = "anthropic" THEN AnthropicQuery(qreq, qreply)
                            ELSE OpenAIQuery(qreq, qreply)]
    /\ UNCHANGED qOther

\* p.QueryStream(ctx, req, callback) on the same reply, streamed
QueryStreamAnswer ==
    /\ qpc = "queried"
    /\ qcall' = [qcall EXCEPT !.qpc = "both",
                              !.sres = StreamQuery(qkind, qreq, qreply)]
    /\ UNCHANGED qOther

QueryNext ==
    \/ \E kind \in {"anthropic", "openai"}, m \in ModelNames, pr \in Prompts,
          reply \in ServerReplies :
            QueryServe(kind, Request(m, pr), reply)
    \/ QueryAnswer
    \/ QueryStreamAnswer

SpecQuery == Init /\ [][QueryNext]_vars

\* C30: on the same reply QueryStream fails exactly when Query fails, and
\* when both succeed they return the same content.
C30_SameContract ==
    qpc = "both" =>
      /\ sres.err # Nil <=> qres.err # Nil
      /\ sres.err = Nil => sres.resp.Content = qres.resp.Content

\* both calls have returned on a reply with status 200 that carries no text
C30_Witness ==
    /\ qpc = "both"
    /\ qreply.ok
    /\ qreply.texts = <<>>
    /\ qres.err = "no content in response"
    /\ sres.err = Nil
    /\ sres.resp.Content = ""

(* ----------------- the errors and the signal in the pipeline ------------- *)

\* no result record has been built or written: nothing on standard output,
\* no file
NothingEmitted == out = NilPtr /\ stdout = <<>> /\ files = {}

C31_RunErrorReached ==
    /\ cpc = "exit"
    /\ Len(failedModels) = 2
    /\ cliErr = "running queries: " \o AllFailedError(warnings)

(* ------------------- the accumulators of Runner.Run ---------------------- *)

\* strings.HasPrefix
HasPrefix(s, t) == Len(s) >= Len(t) /\ SubSeq(s, 1, Len(t)) = t

\* C32: in every state of a Run, warnings and failedModels have the same
\* length, the k-th warning starts with the k-th failed model followed by
\* ": ", and the responses and the failed models together are never more
\* than the tasks launched.
C32_WarningsAligned ==
    /\ Len(warnings) = Len(failedModels)
    /\ \A k \in 1..Len(warnings) : HasPrefix(warnings[k], failedModels[k] \o ": ")
    /\ Len(responses) + Len(failedModels) <= launched

\* Run is still under way and two different models have failed, the second
\* one launched first
C32_Witness ==
    /\ rpc # "returned"
    /\ Len(models) = 2
    /\ Len(failedModels) = 2
    /\ failedModels[1] = models[2]
    /\ failedModels[2] = models[1]
    /\ models[1] # models[2]

(* ------------- the terminal callbacks and the order of responses --------- *)

\* OnModelComplete has been called for task i and has returned
Completed(i) ==
    \E k \in 1..Len(cbLog[i]) : cbLog[i][k][1] = "OnModelComplete"

\* the OnModelComplete calls that have returned
NumCompleted == Cardinality({i \in DOMAIN tpc : Completed(i)})

\* task i is inside the terminal callback that follows its provider call
InTerminalCallback(i) == tpc[i] = "cb"

\* task i is inside its OnModelComplete
InComplete(i) == InTerminalCallback(i) /\ terr[i] = Nil

\* C33: OnModelComplete is called in the order of the responses: the call of
\* a task is made when its response is the last one appended and the calls
\* for all earlier responses have returned.  A task inside the terminal
\* callback after its provider call holds the mutex, so no other task is
\* inside such a callback or at an append at that moment.  The OnModelError
\* of a registry miss is called by a task that does not hold the mutex.
C33_CallbacksFollowResponses ==
    /\ "OnModelComplete" \in callbacks =>
         /\ \A i \in DOMAIN tpc :
              InComplete(i) =>
                /\ responses # <<>>
                /\ responses[Len(responses)] = tresp[i]
                /\ NumCompleted = Len(responses) - 1
         /\ (\A i \in DOMAIN tpc : ~InComplete(i)) => NumCompleted = Len(responses)
    /\ \A i \in DOMAIN tpc :
         /\ InTerminalCallback(i) =>
              /\ mu = i
              /\ \A j \in DOMAIN tpc \ {i} : ~InTerminalCallback(j) /\ ~AtAppend(j)
         /\ tpc[i] = "missCb" => mu # i

\* the second of two responses is that of the task launched first, which is
\* inside its OnModelComplete while the other's has returned
C33_Witness ==
    /\ "OnModelComplete" \in callbacks
    /\ Len(models) = 2
    /\ models[1] # models[2]
    /\ InComplete(1)
    /\ Completed(2)
    /\ responses = <<tresp[2], tresp[1]>>

\* a task is inside the OnModelError of a registry miss while another holds
\* the mutex inside its own terminal callback
C33_MissCallbackUnlocked ==
    \E i, j \in DOMAIN tpc :
      /\ tpc[i] = "missCb"
      /\ InTerminalCallback(j)
      /\ mu = j

\* the signal arrived in the query phase, while a provider call was under way
SignalledInQuery == parentErr = Canceled /\ inflightAtCancel # {}

C34_ErrorUnlessOneResponse ==
    (cpc = "exit" /\ SignalledInQuery /\ Len(responses) # 1) =>
      (cliErr # Nil /\ NothingEmitted)

(* ------------------------- initRegistry in run() ------------------------- *)

\* initRegistry has returned an error
InitFailed == cpc = "exit" /\ HasPrefix(cliErr, "initializing provider for ")

\* C35: once initRegistry has succeeded the registry holds every requested
\* model and the judge, and keeps holding them; if it failed, run() has ended
\* with its error and neither Run nor the judge was ever called.  So no
\* task of the pipeline takes the registry-miss path, no warning is an
\* "unknown model" lookup error, and run() never ends on the error of the
\* judge lookup.
C35_InitRegistryAllOrNothing ==
    /\ cpc \notin {"start", "init"} /\ ~InitFailed /\ cfg.models # <<>> =>
         Needed(cfg) \subseteq DOMAIN registry
    /\ InitFailed =>
         /\ rpc = "idle"
         /\ launched = 0
         /\ judge = NilPtr
    /\ rpc # "idle" =>
         /\ models = cfg.models
         /\ Range(models) \subseteq DOMAIN registry
         /\ RegistryGet(registry, cfg.judge).err = Nil
    /\ \A i \in DOMAIN tpc :
         /\ tpc[i] \notin {"missLock", "missCS", "missCb"}
         /\ tpc[i] # "new" => RegistryGet(registry, models[i]).err = Nil
    /\ ~HasPrefix(cliErr, "judge model ")

\* Run has returned, and the judge, which is not one of the requested models,
\* was found in the registry
C35_Witness ==
    /\ cpc = "judge"
    /\ RunFinished
    /\ cfg.judge \notin Range(cfg.models)
    /\ judge # NilPtr
    /\ judge.model = cfg.judge

\* initRegistry has failed on a judge that is not a known model
C35_InitFailureReached ==
    /\ InitFailed
    /\ cfg.judge \notin KnownModels
    /\ Range(cfg.models) \subseteq KnownModels

(* --------------- the chunk callback of SynthesizeStream ------------------ *)

C37_SingleRelayed ==
    /\ SynthesizeReturned
    /\ jcallback
    /\ Len(jresponses) = 1
    /\ jchunks = <<jresponses[1].Content>>

(* ======================================================================= *)
(* The ui.Progress installed by run() as the runner's callbacks            *)
(* ======================================================================= *)

\* who may hold Progress.mu
TaskGoroutine(i) == <<"task", i>>
RefreshGoroutine == <<"refresh", 0>>
MainGoroutine == <<"main", 0>>

\* the ModelState NewProgress makes for a model
NewModelState == [Status |-> "pending", CharCount |-> 0, Error |-> Nil]

\* Progress.ModelStarted between Lock and Unlock
ModelStarted(ps, model) ==
    IF model \in DOMAIN ps THEN [ps EXCEPT ![model].Status = "running"] ELSE ps

\* a ModelStreaming that takes the model back to pending
ModelStreaming_Regress(ps, model, chunk) ==
    IF model \in DOMAIN ps
    THEN [ps EXCEPT ![model].Status = "pending", ![model].CharCount = @ + Len(chunk)]
    ELSE ps

\* Progress.ModelStreaming between Lock and Unlock
ModelStreaming(ps, model, chunk) ==
    IF model \in DOMAIN ps
    THEN [ps EXCEPT ![model].Status = "streaming", ![model].CharCount = @ + Len(chunk)]
    ELSE ps

\* Progress.ModelCompleted between Lock and Unlock
ModelCompleted(ps, model) ==
    IF model \in DOMAIN ps THEN [ps EXCEPT ![model].Status = "complete"] ELSE ps

\* Progress.ModelFailed between Lock and Unlock
ModelFailed(ps, model, err) ==
    IF model \in DOMAIN ps
    THEN [ps EXCEPT ![model].Status = "failed", ![model].Error = err]
    ELSE ps

\* the names NewProgress may be given: each once
ProgressNames == {ms \in ModelLists : NoDuplicates(ms)}

\* all but the last entry
Front(q) == SubSeq(q, 1, Len(q) - 1)

\* ui.NewProgress(os.Stderr, names, q)
NewProgress(names, q) ==
    /\ upc = "none"
    /\ rpc = "idle"
    /\ ui' = [ui EXCEPT !.porder = names,
                        !.pmodels = [m \in Range(names) |-> NewModelState],
                        !.quiet = q,
                        !.upc = "new"]
    /\ UNCHANGED <<rvars, uOther>>

\* Progress.Start up to its initial render: nothing when quiet, else the
\* ticker and the refresh goroutine are created
ProgressStart ==
    /\ upc = "new"
    /\ ui' = IF quiet
             THEN [ui EXCEPT !.upc = "started"]
             ELSE [ui EXCEPT !.tickerOn = TRUE, !.fpc = "select", !.upc = "initRender"]
    /\ UNCHANGED <<rvars, uOther>>

\* the initial render of Start: p.mu.Lock()
StartRenderLock ==
    /\ upc = "initRender"
    /\ pmu = Unlocked
    /\ ui' = [ui EXCEPT !.pmu = MainGoroutine, !.upc = "initFrame"]
    /\ UNCHANGED <<rvars, uOther>>

\* the initial render of Start: the frame is written, p.mu.Unlock(), Start
\* returns
StartRenderFrame ==
    /\ upc = "initFrame"
    /\ ui' = [ui EXCEPT !.rendered = TRUE, !.pmu = Unlocked, !.upc = "started"]
    /\ UNCHANGED <<rvars, uOther>>

\* runner.New and r.WithCallbacks with the four Progress methods
ProgressCallbacks ==
    /\ upc = "started"
    /\ callbacks' = AllCallbacks
    /\ ui' = [ui EXCEPT !.upc = "ready"]
    /\ UNCHANGED <<registry, models, prompt, rpc, launched, parentErr, gctxErr, gErr,
                   tpc, mctxErr, content, tresp, terr, mu, responses, warnings,
                   failedModels, runResult, runErr, cbLog, calls, timerFired,
                   inflightAtCancel>>
    /\ UNCHANGED uOther

\* r.Run(ctx, models, prompt): over the names of the Progress, or over those
\* and one more
ProgressRun(ms, p) ==
    /\ upc = "ready"
    /\ porder = ms \/ porder = Front(ms)
    /\ RunCall(ms, p)

\* the ticker puts a tick in its channel unless one is waiting there
Tick ==
    /\ tickerOn
    /\ ~tickPending
    /\ ui' = [ui EXCEPT !.tickPending = TRUE]
    /\ UNCHANGED <<rvars, uOther>>

\* the refresh goroutine's select takes the tick
RefreshTick ==
    /\ fpc = "select"
    /\ tickPending
    /\ ui' = [ui EXCEPT !.tickPending = FALSE, !.fpc = "rlock"]
    /\ UNCHANGED <<rvars, uOther>>

\* the refresh goroutine's select takes the closed done channel
RefreshDone ==
    /\ fpc = "select"
    /\ doneClosed
    /\ ui' = [ui EXCEPT !.fpc = "exit"]
    /\ UNCHANGED <<rvars, uOther>>

\* render of the refresh goroutine: p.mu.Lock()
RenderLock ==
    /\ fpc = "rlock"
    /\ pmu = Unlocked
    /\ ui' = [ui EXCEPT !.pmu = RefreshGoroutine, !.fpc = "frame"]
    /\ UNCHANGED <<rvars, uOther>>

\* a render that returns without p.mu.Unlock()
RenderFrame_NoUnlock ==
    /\ fpc = "frame"
    /\ ui' = [ui EXCEPT !.rendered = TRUE, !.fpc = "select"]
    /\ UNCHANGED <<rvars, uOther>>

\* render of the refresh goroutine: the old lines are cleared, the frame is
\* written, p.mu.Unlock()
RenderFrame ==
    /\ fpc = "frame"
    /\ ui' = [ui EXCEPT !.rendered = TRUE, !.pmu = Unlocked, !.fpc = "select"]
    /\ UNCHANGED <<rvars, uOther>>

\* Progress.Stop after Run: nothing when quiet, else close(p.done),
\* ticker.Stop() and the read of p.rendered
ProgressStop ==
    /\ upc = "ready"
    /\ rpc = "returned"
    /\ ui' = IF quiet
             THEN [ui EXCEPT !.upc = "stopped"]
             ELSE [ui EXCEPT !.doneClosed = TRUE,
                             !.tickerOn = FALSE,
                             !.upc = IF rendered THEN "clear" ELSE "stopped"]
    /\ UNCHANGED <<rvars, uOther>>

\* Progress.Stop: clearLines has written its escape sequences, Stop returns
ProgressStopClear ==
    /\ upc = "clear"
    /\ ui' = [ui EXCEPT !.upc = "stopped"]
    /\ UNCHANGED <<rvars, uOther>>

\* where a task is about to call a callback, and where it is once the
\* Progress method it calls holds p.mu
CallbackPoint ==
    [start |-> "startHeld", missCb |-> "missHeld", streamCb |-> "streamHeld",
     cb |-> "cbHeld"]

\* the p.mu.Lock() at the head of the Progress method a callback calls
CallbackLock(i) ==
    /\ tpc[i] \in DOMAIN CallbackPoint
    /\ pmu = Unlocked
    /\ ui' = [ui EXCEPT !.pmu = TaskGoroutine(i)]
    /\ tpc' = [tpc EXCEPT ![i] = CallbackPoint[tpc[i]]]
    /\ UNCHANGED <<registry, callbacks, models, prompt, rpc, launched, parentErr,
                   gctxErr, gErr, mctxErr, content, tresp, terr, mu, responses,
                   warnings, failedModels, runResult, runErr, cbLog, calls,
                   timerFired, inflightAtCancel>>
    /\ UNCHANGED uOther

\* OnModelStart returns; registry.Get, and on a hit the QueryStream request
\* is issued
ProgressTaskStart(i) ==
    /\ tpc[i] = "startHeld"
    /\ ui' = [ui EXCEPT !.pmodels = ModelStarted(pmodels, models[i]),
                        !.pmu = Unlocked]
    /\ LET get == RegistryGet(registry, models[i])
       IN  /\ mctxErr' = [mctxErr EXCEPT ![i] = gctxErr]
           /\ cbLog' = [cbLog EXCEPT ![i] = Invoke(@, "OnModelStart", models[i], "")]
           /\ IF get.err # Nil
              THEN /\ terr' = [terr EXCEPT ![i] = get.err]
                   /\ tpc' = [tpc EXCEPT ![i] = "missLock"]
                   /\ UNCHANGED calls
              ELSE /\ tpc' = [tpc EXCEPT ![i] = IF get.p = "func" THEN "stub" ELSE "do"]
                   /\ calls' = [calls EXCEPT ![i] = Append(@, Request(models[i], prompt))]
                   /\ UNCHANGED terr
    /\ UNCHANGED <<registry, callbacks, models, prompt, rpc, launched, parentErr,
                   gctxErr, gErr, content, tresp, mu, responses, warnings,
                   failedModels, runResult, runErr, timerFired, inflightAtCancel>>
    /\ UNCHANGED uOther

\* registry miss: OnModelError returns, the task returns nil
ProgressMissError(i) ==
    /\ tpc[i] = "missHeld"
    /\ ui' = [ui EXCEPT !.pmodels = ModelFailed(pmodels, models[i], terr[i]),
                        !.pmu = Unlocked]
    /\ cbLog' = [cbLog EXCEPT ![i] = Invoke(@, "OnModelError", models[i], terr[i])]
    /\ tpc' = [tpc EXCEPT ![i] = "done"]
    /\ LET g == GroupDone(i, TaskReturnValue(terr[i]))
       IN  /\ gErr' = g.gErr
           /\ gctxErr' = g.gctxErr
           /\ mctxErr' = g.mctxErr
    /\ UNCHANGED <<registry, callbacks, models, prompt, rpc, launched, parentErr,
                   content, tresp, terr, mu, responses, warnings, failedModels,
                   runResult, runErr, calls, timerFired, inflightAtCancel>>
    /\ UNCHANGED uOther

\* ProviderFunc.QueryStream: f answers; on success the callback is called
\* with the content
ProgressStubCall(i) ==
    /\ tpc[i] = "stub"
    /\ \E fres \in StubOutcomes(mctxErr[i], calls[i][1]) :
         LET r == ProviderFuncQueryStream(fres)
         IN  /\ tresp' = [tresp EXCEPT ![i] = r.resp]
             /\ terr' = [terr EXCEPT ![i] = r.err]
             /\ IF r.chunks = <<>>
                THEN /\ tpc' = [tpc EXCEPT ![i] = "lock"]
                     /\ UNCHANGED ui
                ELSE /\ tpc' = [tpc EXCEPT ![i] = "streamCb"]
                     /\ ui' = [ui EXCEPT !.pchunk = (i :> r.chunks[1]) @@ @]
    /\ UNCHANGED <<registry, callbacks, models, prompt, rpc, launched, parentErr,
                   gctxErr, gErr, mctxErr, content, mu, responses, warnings,
                   failedModels, runResult, runErr, cbLog, calls, timerFired,
                   inflightAtCancel>>
    /\ UNCHANGED uOther

\* Anthropic.QueryStream: one scanner.Scan(); a text delta is appended and
\* the callback is called with it
ProgressScan(i) ==
    /\ tpc[i] = "scan"
    /\ \E o \in ScanOutcomes(mctxErr[i], content[i]) :
         CASE o.kind = "delta" ->
                /\ content' = [content EXCEPT ![i] = @ \o o.chunk]
                /\ ui' = [ui EXCEPT !.pchunk = (i :> o.chunk) @@ @]
                /\ tpc' = [tpc EXCEPT ![i] = "streamCb"]
                /\ UNCHANGED <<tresp, terr>>
           [] o.kind = "eof" ->
                /\ tresp' = [tresp EXCEPT ![i] =
                               AnthropicResponse(calls[i][1], content[i])]
                /\ tpc' = [tpc EXCEPT ![i] = "lock"]
                /\ UNCHANGED <<content, terr, ui>>
           [] o.kind = "err" ->
                /\ terr' = [terr EXCEPT ![i] = o.err]
                /\ tpc' = [tpc EXCEPT ![i] = "lock"]
                /\ UNCHANGED <<content, tresp, ui>>
    /\ UNCHANGED <<registry, callbacks, models, prompt, rpc, launched, parentErr,
                   gctxErr, gErr, mctxErr, mu, responses, warnings, failedModels,
                   runResult, runErr, cbLog, calls, timerFired, inflightAtCancel>>
    /\ UNCHANGED uOther

\* OnModelStream returns: the scan loop goes on, or ProviderFunc.QueryStream
\* returns
ProgressStream(i) ==
    /\ tpc[i] = "streamHeld"
    /\ ui' = [ui EXCEPT !.pmodels = ModelStreaming(pmodels, models[i], pchunk[i]),
                        !.pmu = Unlocked,
                        !.pchunk = (i :> "") @@ @]
    /\ cbLog' = [cbLog EXCEPT ![i] = Invoke(@, "OnModelStream", models[i], pchunk[i])]
    /\ tpc' = [tpc EXCEPT ![i] =
                 IF RegistryGet(registry, models[i]).p = "func" THEN "lock" ELSE "scan"]
    /\ UNCHANGED <<registry, callbacks, models, prompt, rpc, launched, parentErr,
                   gctxErr, gErr, mctxErr, content, tresp, terr, mu, responses,
                   warnings, failedModels, runResult, runErr, calls, timerFired,
                   inflightAtCancel>>
    /\ UNCHANGED uOther

\* after the appends: OnModelError or OnModelComplete returns, the task
\* returns nil, the deferred mu.Unlock() and cancel() run
ProgressNotify(i) ==
    /\ tpc[i] = "cbHeld"
    /\ mu = i
    /\ ui' = [ui EXCEPT !.pmodels = IF terr[i] # Nil
                                    THEN ModelFailed(pmodels, models[i], terr[i])
                                    ELSE ModelCompleted(pmodels, models[i]),
                        !.pmu = Unlocked]
    /\ cbLog' = [cbLog EXCEPT ![i] =
                   IF terr[i] # Nil
                   THEN Invoke(@, "OnModelError", models[i], terr[i])
                   ELSE Invoke(@, "OnModelComplete", models[i], "")]
    /\ mu' = 0
    /\ tpc' = [tpc EXCEPT ![i] = "done"]
    /\ LET g == GroupDone(i, TaskReturnValue(terr[i]))
       IN  /\ gErr' = g.gErr
           /\ gctxErr' = g.gctxErr
           /\ mctxErr' = g.mctxErr
    /\ UNCHANGED <<registry, callbacks, models, prompt, rpc, launched, parentErr,
                   content, tresp, terr, responses, warnings, failedModels,
                   runResult, runErr, calls, timerFired, inflightAtCancel>>
    /\ UNCHANGED uOther

\* the steps of task i
ProgressTaskStep(i) ==
    \/ CallbackLock(i)
    \/ ProgressTaskStart(i)
    \/ MissLock(i)
    \/ MissAppend(i)
    \/ ProgressMissError(i)
    \/ ProgressStubCall(i)
    \/ HttpDo(i)
    \/ ProgressScan(i)
    \/ ProgressStream(i)
    \/ TaskLock(i)
    \/ TaskAppend(i)
    \/ ProgressNotify(i)

\* the steps of the refresh goroutine
RefreshStep == RefreshTick \/ RefreshDone \/ RenderLock \/ RenderFrame

\* the steps of the main goroutine
MainStep ==
    \/ \E names \in ProgressNames, q \in BOOLEAN : NewProgress(names, q)
    \/ ProgressStart
    \/ StartRenderLock
    \/ StartRenderFrame
    \/ ProgressCallbacks
    \/ \E ms \in ProgressNames, p \in Prompts : ProgressRun(ms, p)
    \/ Launch
    \/ Wait
    \/ ProgressStop
    \/ ProgressStopClear

ProgressNext ==
    \/ MainStep
    \/ \E i \in DOMAIN tpc : ProgressTaskStep(i)
    \/ RefreshStep
    \/ Tick

SpecProgress == Init /\ [][ProgressNext]_vars

(* ------------------ the two mutexes: runner.mu and Progress.mu ----------- *)

\* task i is inside a Progress method, holding Progress.mu
InProgressMethod(i) == tpc[i] \in Range(CallbackPoint)

\* task i is blocked at the Lock of a Progress method
WaitsForProgress(i) == tpc[i] \in DOMAIN CallbackPoint /\ pmu # Unlocked

\* task i is blocked at mu.Lock()
WaitsForMutex(i) == tpc[i] \in {"lock", "missLock"} /\ mu # 0

\* task i has a step it can take
CanStep(i) == ENABLED ProgressTaskStep(i)

\* whoever holds Progress.mu can take its next step, which releases it
ProgressHolderCanStep ==
    \/ pmu = RefreshGoroutine /\ ENABLED RenderFrame
    \/ pmu = MainGoroutine /\ ENABLED StartRenderFrame
    \/ \E j \in DOMAIN tpc : pmu = TaskGoroutine(j) /\ CanStep(j)

\* task i can take a step, or waits for a mutex whose holder can take a
\* step, or waits for runner.mu whose holder waits for Progress.mu whose
\* holder can take a step
CanProceed(i) ==
    \/ CanStep(i)
    \/ WaitsForProgress(i) /\ ProgressHolderCanStep
    \/ /\ WaitsForMutex(i)
       /\ \/ CanStep(mu)
          \/ WaitsForProgress(mu) /\ ProgressHolderCanStep

\* C36: with the Progress methods as callbacks no state of a run is a
\* deadlock.  Whoever holds Progress.mu is inside a Progress method or a
\* render and is not waiting for runner.mu; a task that holds both took
\* runner.mu first (it is at its terminal callback); the refresh goroutine
\* and the main goroutine never hold runner.mu.  Every task that has started
\* and not returned can proceed, the render loop waiting for Progress.mu can
\* proceed once its holder has stepped, and until Stop has returned some
\* step of the program is enabled.
C36_NoDeadlock ==
    /\ mu \in {0} \cup DOMAIN tpc
    /\ \A i \in DOMAIN tpc :
         /\ pmu = TaskGoroutine(i) <=> InProgressMethod(i)
         /\ (pmu = TaskGoroutine(i) /\ mu = i) => tpc[i] = "cbHeld"
         /\ InProgressMethod(i) => CanStep(i)
         /\ tpc[i] \notin {"new", "done"} => CanProceed(i)
    /\ pmu = RefreshGoroutine <=> fpc = "frame"
    /\ pmu = MainGoroutine <=> upc = "initFrame"
    /\ pmu # Unlocked => ProgressHolderCanStep
    /\ fpc = "rlock" => (ENABLED RenderLock \/ ProgressHolderCanStep)
    /\ upc # "stopped" => ENABLED ProgressNext

\* a task holds runner.mu and waits for Progress.mu to call OnModelComplete,
\* the refresh goroutine is rendering under Progress.mu, and the other task
\* waits for runner.mu
C36_Witness ==
    \E i, j \in DOMAIN tpc :
      /\ mu = i
      /\ tpc[i] = "cb"
      /\ terr[i] = Nil
      /\ pmu = RefreshGoroutine
      /\ tpc[j] = "lock"

(* ------------------------- the status of a model ------------------------- *)

\* the changes of Status along pending -> running -> streaming ->
\* (complete | failed), streaming possibly skipped
StatusEdges ==
    {<<"pending", "running">>, <<"running", "streaming">>,
     <<"running", "complete">>, <<"running", "failed">>,
     <<"streaming", "complete">>, <<"streaming", "failed">>}

\* C38: in a run over distinct model names every change of a model's status
\* is one of the forward changes (so a status of complete or failed never
\* changes again), and a step of a task whose model the Progress does not
\* know leaves the state of every model as it was.
C38_StatusMovesForward ==
    [][/\ \A m \in DOMAIN pmodels \cap DOMAIN pmodels' :
            pmodels'[m].Status # pmodels[m].Status =>
              <<pmodels[m].Status, pmodels'[m].Status>> \in StatusEdges
       /\ \A i \in DOMAIN tpc \cap DOMAIN tpc' :
            (tpc'[i] # tpc[i] /\ models[i] \notin DOMAIN pmodels) => pmodels' = pmodels
      ]_vars

\* Run has returned: one model streamed and is complete, the other failed
\* without streaming
C38_Witness ==
    /\ rpc = "returned"
    /\ \E m, n \in DOMAIN pmodels :
         /\ pmodels[m].Status = "complete"
         /\ pmodels[m].CharCount > 0
         /\ pmodels[n].Status = "failed"
         /\ pmodels[n].CharCount = 0

\* the OnModelError of a model the Progress does not know has returned
C38_UnknownModelEvent ==
    \E i \in DOMAIN tpc :
      /\ tpc[i] = "done"
      /\ models[i] \notin DOMAIN pmodels
      /\ \E k \in 1..Len(cbLog[i]) : cbLog[i][k][1] = "OnModelError"

(* ------------------------------ Progress.Stop ---------------------------- *)

\* the refresh goroutine is in render or about to enter it
Rendering == fpc \in {"rlock", "frame"}

\* C39, as stated: once Stop has returned the refresh goroutine is not in a
\* render and will not enter one, and while Stop clears the rendered lines
\* the refresh goroutine is not writing a frame.
C39_StopEndsTheDisplay ==
    /\ upc = "stopped" => ~Rendering /\ ~(fpc = "select" /\ tickPending)
    /\ upc = "clear" => fpc # "frame"

\* Stop has returned and the refresh goroutine is writing a frame
C39_Witness ==
    /\ upc = "stopped"
    /\ doneClosed
    /\ ~tickerOn
    /\ fpc = "frame"

\* Stop is clearing the lines while the refresh goroutine writes a frame
C39_ClearDuringRender ==
    /\ upc = "clear"
    /\ fpc = "frame"

====
